---- MODULE Spec2Model ----
(***************************************************************************)
(* A model of the sgen word generator: the pattern expander                *)
(* (core/parser.py, core/sound_changes.py) and the sound-change engine     *)
(* (core/sound_changes.py) driven by main (word_generator.py).             *)
(*                                                                         *)
(* A Python str is a sequence of one-character strings; a list is a        *)
(* sequence; a category table is a function from category symbols to       *)
(* lists of members (each member a str).                                   *)
(***************************************************************************)
EXTENDS Integers, Sequences, FiniteSets, TLC

VARIABLES pc, pattern, expanded_rules, expanded_environments,
          words, replacement_rules, categories, dict_mode, syllabify,
          show_rules, word_idx, rule_idx, current_word, processed_words,
          applied_rules, applied_rules_list, warnings, out_words,
          lines, line_idx, in_dict_section, dict_started, in_syll_section,
          structure_rules, dict_words, syll_rules,
          weighted_rules, random_value, selected_rule,
          syllabification_rules,
          scan, scan_i, scan_depth, scan_start, scan_result, scan_matches

vars == <<pc, pattern, expanded_rules, expanded_environments,
          words, replacement_rules, categories, dict_mode, syllabify,
          show_rules, word_idx, rule_idx, current_word, processed_words,
          applied_rules, applied_rules_list, warnings, out_words,
          lines, line_idx, in_dict_section, dict_started, in_syll_section,
          structure_rules, dict_words, syll_rules,
          weighted_rules, random_value, selected_rule,
          syllabification_rules,
          scan, scan_i, scan_depth, scan_start, scan_result, scan_matches>>

\* the locals of parse_input_file that the engine does not read
\* (structure_rules is its list "rules"), those of select_random_rule and
\* the syllabification rules of main
frontVars == <<lines, line_idx, in_dict_section, dict_started,
               in_syll_section, structure_rules, dict_words, syll_rules,
               weighted_rules, random_value, selected_rule,
               syllabification_rules,
               scan, scan_i, scan_depth, scan_start, scan_result, scan_matches>>

scanVars == <<scan, scan_i, scan_depth, scan_start, scan_result, scan_matches>>

expandVars == <<pattern, expanded_rules, expanded_environments>>

engineVars == <<words, replacement_rules, categories, dict_mode, syllabify,
                show_rules, word_idx, rule_idx, current_word,
                processed_words, applied_rules, applied_rules_list, warnings,
                out_words>>

(***************************************************************************)
(* Characters with a meaning in the rule notation.                         *)
(***************************************************************************)
SIGMA == "σ"
PRIMARY == "ˈ"
SECONDARY == "ˌ"
BREVE == "˘"
DOUBLING == "²"
DOT == "."
WHITESPACE == {" "}

(***************************************************************************)
(* Python built-ins on str and list.                                       *)
(***************************************************************************)
Min(a, b) == IF a < b THEN a ELSE b

Max(a, b) == IF a < b THEN b ELSE a

Range(s) == {s[k] : k \in 1..Len(s)}

\* s[a:b] for 0 <= a, 0 <= b (Python clamps the upper index to len(s))
Slice(s, a, b) == SubSeq(s, a + 1, Min(b, Len(s)))

\* s[a:]
SliceFrom(s, a) == SubSeq(s, a + 1, Len(s))

\* s.startswith(p)
StartsWith(s, p) == Len(p) <= Len(s) /\ SubSeq(s, 1, Len(p)) = p

\* c in s, for a one-character c
InStr(c, s) == \E k \in 1..Len(s) : s[k] = c

RECURSIVE LStrip(_)
LStrip(s) ==
    IF s # <<>> /\ Head(s) \in WHITESPACE THEN LStrip(Tail(s)) ELSE s

RECURSIVE RStrip(_)
RStrip(s) ==
    IF s # <<>> /\ s[Len(s)] \in WHITESPACE
    THEN RStrip(SubSeq(s, 1, Len(s) - 1)) ELSE s

\* s.strip()
Strip(s) == RStrip(LStrip(s))

\* s.split(sep) for a non-empty separator sep: the pieces between the
\* non-overlapping occurrences of sep found from the left
RECURSIVE SplitFrom(_, _, _, _)
SplitFrom(s, sep, k, piece) ==
    IF k > Len(s) THEN <<piece>>
    ELSE IF k + Len(sep) - 1 <= Len(s) /\ SubSeq(s, k, k + Len(sep) - 1) = sep
         THEN <<piece>> \o SplitFrom(s, sep, k + Len(sep), <<>>)
         ELSE SplitFrom(s, sep, k + 1, Append(piece, s[k]))

Split(s, sep) == SplitFrom(s, sep, 1, <<>>)

\* ''.join(list)
RECURSIVE Join(_)
Join(l) == IF l = <<>> THEN <<>> ELSE Head(l) \o Join(Tail(l))

\* the "seen" loop and list(dict.fromkeys(l)): first occurrences, in order
RECURSIVE DedupFrom(_, _, _)
DedupFrom(l, k, acc) ==
    IF k > Len(l) THEN acc
    ELSE DedupFrom(l, k + 1,
                   IF l[k] \in Range(acc) THEN acc ELSE Append(acc, l[k]))

Dedup(l) == DedupFrom(l, 1, <<>>)

\* list.reverse()
Reverse(l) == [k \in 1..Len(l) |-> l[Len(l) + 1 - k]]

\* list.index(x) for x in l (0-based)
IndexOf(l, x) == CHOOSE k \in 0..(Len(l) - 1) :
                    l[k + 1] = x /\ \A j \in 1..k : l[j] # x

(***************************************************************************)
(* expand_rule (core/parser.py)                                            *)
(***************************************************************************)
\* the inner while loop: advance i until depth is 0 or the rule ends
RECURSIVE FindClose(_, _, _)
FindClose(rule, i, depth) ==
    IF i < Len(rule) /\ depth > 0
    THEN FindClose(rule, i + 1,
                   IF rule[i + 1] = "(" THEN depth + 1
                   ELSE IF rule[i + 1] = ")" THEN depth - 1
                   ELSE depth)
    ELSE [i |-> i, depth |-> depth]

\* the outer while loop: the list of (start, end, group_content)
RECURSIVE FindGroups(_, _, _)
FindGroups(rule, i, paren_groups) ==
    IF i >= Len(rule) THEN paren_groups
    ELSE IF rule[i + 1] = "("
         THEN LET e == FindClose(rule, i + 1, 1)
              IN  IF e.depth = 0
                  THEN FindGroups(rule, e.i,
                           Append(paren_groups,
                                  [start |-> i, end |-> e.i,
                                   content |-> Slice(rule, i + 1, e.i - 1)]))
                  ELSE FindGroups(rule, i + 1, paren_groups)
         ELSE FindGroups(rule, i + 1, paren_groups)

\* [alt.strip() for alt in group_content.split(',')]
RuleAlternatives(group_content) ==
    LET parts == Split(group_content, <<",">>)
    IN  [k \in 1..Len(parts) |-> Strip(parts[k])]

\* the loop "for current_rule in expanded_rules" for one group.  The loop
\* variable group_content of the enclosing loop is reassigned inside this
\* loop when a leading '!' is seen, and the reassigned value is the one the
\* next current_rule sees.
RECURSIVE ExpandGroup(_, _, _, _, _, _)
ExpandGroup(expanded, k, start, end, group_content, new_expanded) ==
    IF k > Len(expanded) THEN new_expanded
    ELSE LET current_rule == expanded[k]
             is_mandatory == StartsWith(group_content, <<"!">>)
             content      == IF is_mandatory THEN SliceFrom(group_content, 1)
                             ELSE group_content
             alternatives == RuleAlternatives(content)
             options      == IF is_mandatory THEN alternatives
                             ELSE <<(<<>>)>> \o alternatives
             new_rules    == [o \in 1..Len(options) |->
                                 Slice(current_rule, 0, start) \o options[o]
                                    \o SliceFrom(current_rule, end)]
         IN  ExpandGroup(expanded, k + 1, start, end, content,
                         new_expanded \o new_rules)

\* the loop "for start, end, group_content in paren_groups"
RECURSIVE ExpandGroups(_, _, _)
ExpandGroups(paren_groups, g, expanded) ==
    IF g > Len(paren_groups) THEN expanded
    ELSE ExpandGroups(paren_groups, g + 1,
             ExpandGroup(expanded, 1, paren_groups[g].start,
                         paren_groups[g].end, paren_groups[g].content, <<>>))

expand_rule(rule) ==
    LET paren_groups == FindGroups(rule, 0, <<>>)
    IN  IF paren_groups = <<>> THEN <<rule>>
        ELSE Dedup(ExpandGroups(Reverse(paren_groups), 1, <<rule>>))

(***************************************************************************)
(* expand_environment_rule (core/sound_changes.py)                         *)
(***************************************************************************)
RECURSIVE FindCloseEnv(_, _, _)
FindCloseEnv(environment, i, depth) ==
    IF i < Len(environment) /\ depth > 0
    THEN FindCloseEnv(environment, i + 1,
                      IF environment[i + 1] = "(" THEN depth + 1
                      ELSE IF environment[i + 1] = ")" THEN depth - 1
                      ELSE depth)
    ELSE [i |-> i, depth |-> depth]

RECURSIVE FindGroupsEnv(_, _, _)
FindGroupsEnv(environment, i, paren_groups) ==
    IF i >= Len(environment) THEN paren_groups
    ELSE IF environment[i + 1] = "("
         THEN LET e == FindCloseEnv(environment, i + 1, 1)
              IN  IF e.depth = 0
                  THEN FindGroupsEnv(environment, e.i,
                           Append(paren_groups,
                                  [start |-> i, end |-> e.i,
                                   content |->
                                      Slice(environment, i + 1, e.i - 1)]))
                  ELSE FindGroupsEnv(environment, i + 1, paren_groups)
         ELSE FindGroupsEnv(environment, i + 1, paren_groups)

\* the variant that keeps the blanks around an alternative
EnvAlternatives_Unstripped(group_content) == Split(group_content, <<",">>)

EnvAlternatives(group_content) ==
    LET parts == Split(group_content, <<",">>)
    IN  [k \in 1..Len(parts) |-> Strip(parts[k])]

\* the loop "for current_env in expanded_environments" for one group; as in
\* expand_rule, group_content is reassigned inside the loop
RECURSIVE ExpandEnvGroup(_, _, _, _, _, _)
ExpandEnvGroup(expanded, k, start, end, group_content, new_expanded) ==
    IF k > Len(expanded) THEN new_expanded
    ELSE LET current_env  == expanded[k]
             is_mandatory == StartsWith(group_content, <<"!">>)
             content      == IF is_mandatory THEN SliceFrom(group_content, 1)
                             ELSE group_content
             alternatives == EnvAlternatives(content)
             options      == IF is_mandatory THEN alternatives
                             ELSE <<(<<>>)>> \o alternatives
             new_envs     == [o \in 1..Len(options) |->
                                 Slice(current_env, 0, start) \o options[o]
                                    \o SliceFrom(current_env, end)]
         IN  ExpandEnvGroup(expanded, k + 1, start, end, content,
                            new_expanded \o new_envs)

RECURSIVE ExpandEnvGroups(_, _, _)
ExpandEnvGroups(paren_groups, g, expanded) ==
    IF g > Len(paren_groups) THEN expanded
    ELSE ExpandEnvGroups(paren_groups, g + 1,
             ExpandEnvGroup(expanded, 1, paren_groups[g].start,
                            paren_groups[g].end, paren_groups[g].content,
                            <<>>))

expand_environment_rule(environment) ==
    LET paren_groups == FindGroupsEnv(environment, 0, <<>>)
    IN  IF paren_groups = <<>> THEN <<environment>>
        ELSE Dedup(ExpandEnvGroups(Reverse(paren_groups), 1, <<environment>>))

(***************************************************************************)
(* Sound changes (core/sound_changes.py)                                   *)
(***************************************************************************)
\* the outcome of a call that ended in an uncaught exception
Raised == <<"ValueError">>

\* the return value None
None == <<"None">>

\* word.replace(c, '') for a one-character c
RECURSIVE RemoveChar(_, _)
RemoveChar(word, c) ==
    IF word = <<>> THEN <<>>
    ELSE IF Head(word) = c THEN RemoveChar(Tail(word), c)
    ELSE <<Head(word)>> \o RemoveChar(Tail(word), c)

\* the cleaning without the secondary and primary stress marks
clean_word_for_processing_DotOnly(word) == RemoveChar(word, DOT)

clean_word_for_processing(word) ==
    RemoveChar(RemoveChar(RemoveChar(word, DOT), PRIMARY), SECONDARY)

\* the test that looks for the syllable sign only
is_syllable_sensitive_rule_SigmaOnly(rule_str) == InStr(SIGMA, rule_str)

is_syllable_sensitive_rule(rule_str) ==
    \E char \in {SIGMA, PRIMARY, SECONDARY, BREVE} : InStr(char, rule_str)

\* parse_replacement_rule: valid = FALSE stands for the return value None
InvalidRule ==
    [valid |-> FALSE, input |-> <<>>, output |-> <<>>, environment |-> <<>>]

parse_replacement_rule(rule_str) ==
    LET dparts == Split(rule_str, <<"/", "/">>)
        parts  == Split(rule_str, <<"/">>)
    IN  IF Len(dparts) = 2 /\ StartsWith(dparts[2], <<"/">>)
        THEN [valid |-> TRUE, input |-> dparts[1], output |-> <<>>,
              environment |-> IF Len(dparts[2]) > 1
                              THEN SliceFrom(dparts[2], 1) ELSE <<"_">>]
        ELSE IF Len(parts) = 2
        THEN [valid |-> TRUE, input |-> parts[1], output |-> parts[2],
              environment |-> <<"_">>]
        ELSE IF Len(parts) = 3
        THEN [valid |-> TRUE, input |-> parts[1], output |-> parts[2],
              environment |-> IF parts[3] = <<>> THEN <<"_">> ELSE parts[3]]
        ELSE InvalidRule

\* context_part.index(']', i): the 0-based index of the first ']' at or
\* after i, or -1 where Python raises ValueError
BracketEnd(context_part, i) ==
    IF \E k \in i..(Len(context_part) - 1) : context_part[k + 1] = "]"
    THEN CHOOSE k \in i..(Len(context_part) - 1) :
            /\ context_part[k + 1] = "]"
            /\ \A j \in i..(k - 1) : context_part[j + 1] # "]"
    ELSE -1

\* word_char in categories[symbol]
InCategory(word_char, symbol, cats) == <<word_char>> \in Range(cats[symbol])

\* match_context: "True", "False" or "ValueError"; the loop runs over the
\* pairs of the two strings from index i
RECURSIVE MatchContextFrom(_, _, _, _)
MatchContextFrom(word_part, context_part, i, cats) ==
    IF Len(word_part) # Len(context_part) /\ i = 0 THEN "False"
    ELSE IF i >= Min(Len(word_part), Len(context_part)) THEN "True"
    ELSE LET word_char    == word_part[i + 1]
             context_char == context_part[i + 1]
         IN  IF context_char = "#" \/ context_char = "_"
             THEN MatchContextFrom(word_part, context_part, i + 1, cats)
             ELSE IF context_char = "["
             THEN LET bracket_end == BracketEnd(context_part, i)
                  IN  IF bracket_end = -1 THEN "ValueError"
                      ELSE IF ~ InStr(word_char,
                                      Slice(context_part, i + 1, bracket_end))
                      THEN "False"
                      ELSE MatchContextFrom(
                               Slice(word_part, 0, i)
                                  \o SliceFrom(word_part, i + 1),
                               Slice(context_part, 0, i)
                                  \o SliceFrom(context_part, bracket_end + 1),
                               0, cats)
             ELSE IF context_char \in DOMAIN cats
             THEN IF ~ InCategory(word_char, context_char, cats) THEN "False"
                  ELSE MatchContextFrom(word_part, context_part, i + 1, cats)
             ELSE IF word_char # context_char THEN "False"
                  ELSE MatchContextFrom(word_part, context_part, i + 1, cats)

match_context(word_part, context_part, cats) ==
    MatchContextFrom(word_part, context_part, 0, cats)

\* environment.index('_'), 0-based, for an environment that holds '_'
UnderscorePos(environment) == IndexOf(environment, "_")

\* _match_single_environment_for_segment: "True", "False" or "ValueError"
MatchSingleEnvironmentForSegment(word, position, segment_length, environment, cats) ==
    IF environment = <<"_">> THEN "True"
    ELSE IF ~ InStr("_", environment) THEN "False"
    ELSE
    LET underscore_pos == UnderscorePos(environment)
        left_context   == Slice(environment, 0, underscore_pos)
        right_context  == SliceFrom(environment, underscore_pos + 1)
        left_start     == position - Len(left_context)
        left  == IF left_context = <<>> THEN "True"
                 ELSE IF left_context = <<"#">>
                 THEN (IF position # 0 THEN "False" ELSE "True")
                 ELSE IF left_start < 0 THEN "False"
                 ELSE match_context(Slice(word, left_start, position),
                                    left_context, cats)
        right_start == position + segment_length
        right_end   == right_start + Len(right_context)
        right == IF right_context = <<>> THEN "True"
                 ELSE IF right_context = <<"#">>
                 THEN (IF position + segment_length # Len(word)
                       THEN "False" ELSE "True")
                 ELSE IF right_end > Len(word) THEN "False"
                 ELSE match_context(Slice(word, right_start, right_end),
                                    right_context, cats)
    IN  IF left # "True" THEN left ELSE right

\* _match_single_environment: the right context starts at position + 1
MatchSingleEnvironment(word, position, environment, cats) ==
    IF environment = <<"_">> THEN "True"
    ELSE IF ~ InStr("_", environment) THEN "False"
    ELSE
    LET underscore_pos == UnderscorePos(environment)
        left_context   == Slice(environment, 0, underscore_pos)
        right_context  == SliceFrom(environment, underscore_pos + 1)
        left_start     == position - Len(left_context)
        left  == IF left_context = <<>> THEN "True"
                 ELSE IF left_context = <<"#">>
                 THEN (IF position # 0 THEN "False" ELSE "True")
                 ELSE IF left_start < 0 THEN "False"
                 ELSE match_context(Slice(word, left_start, position),
                                    left_context, cats)
        right_start == position + 1
        right_end   == right_start + Len(right_context)
        right == IF right_context = <<>> THEN "True"
                 ELSE IF right_context = <<"#">>
                 THEN (IF position + 1 # Len(word) THEN "False" ELSE "True")
                 ELSE IF right_end > Len(word) THEN "False"
                 ELSE match_context(Slice(word, right_start, right_end),
                                    right_context, cats)
    IN  IF left # "True" THEN left ELSE right

\* the loop "for expanded_env in expanded_environments": the first
\* environment that matches or raises decides
RECURSIVE AnyEnvironment(_, _, _, _, _, _)
AnyEnvironment(envs, k, word, position, segment_length, cats) ==
    IF k > Len(envs) THEN "False"
    ELSE LET m == IF segment_length = -1
                  THEN MatchSingleEnvironment(word, position, envs[k], cats)
                  ELSE MatchSingleEnvironmentForSegment(
                           word, position, segment_length, envs[k], cats)
         IN  IF m = "False"
             THEN AnyEnvironment(envs, k + 1, word, position,
                                 segment_length, cats)
             ELSE m

match_environment(word, position, environment, cats) ==
    IF environment = <<"_">> THEN "True"
    ELSE AnyEnvironment(expand_environment_rule(environment), 1, word,
                        position, -1, cats)

\* the check for a segment of one character, whatever its length
match_environment_for_segment_OneChar(word, position, segment_length, environment, cats) ==
    match_environment(word, position, environment, cats)

\* match_environment_for_segment: "True", "False" or "ValueError"
match_environment_for_segment(word, position, segment_length, environment, cats) ==
    IF environment = <<"_">> THEN "True"
    ELSE AnyEnvironment(expand_environment_rule(environment), 1, word,
                        position, segment_length, cats)

match_input_at_position(word_segment, input_pattern, cats) ==
    /\ Len(word_segment) = Len(input_pattern)
    /\ \A k \in 1..Len(input_pattern) :
          IF input_pattern[k] \in DOMAIN cats
          THEN InCategory(word_segment[k], input_pattern[k], cats)
          ELSE word_segment[k] = input_pattern[k]

\* the members with their repetitions
UniqueMembers_Expanded(symbol, cats) == cats[symbol]

\* list(dict.fromkeys(categories[symbol]))
UniqueMembers(symbol, cats) == Dedup(cats[symbol])

\* the loop of get_replacement_output that builds the output character by
\* character; None when two aligned categories differ in size
RECURSIVE BuildOutput(_, _, _, _, _, _)
BuildOutput(matched_segment, input_pattern, output_pattern, i, result, cats) ==
    IF i >= Min(Len(matched_segment), Len(output_pattern)) THEN Join(result)
    ELSE LET matched_char == matched_segment[i + 1]
             output_char  == output_pattern[i + 1]
         IN  IF output_char = DOUBLING
             THEN BuildOutput(matched_segment, input_pattern, output_pattern,
                              i + 1,
                              Append(result, <<matched_char, matched_char>>),
                              cats)
             ELSE IF /\ output_char \in DOMAIN cats
                     /\ i < Len(input_pattern)
                     /\ input_pattern[i + 1] \in DOMAIN cats
             THEN LET input_chars  == UniqueMembers(input_pattern[i + 1], cats)
                      output_chars == UniqueMembers(output_char, cats)
                  IN  IF Len(input_chars) # Len(output_chars) THEN None
                      ELSE BuildOutput(
                               matched_segment, input_pattern, output_pattern,
                               i + 1,
                               Append(result,
                                   IF <<matched_char>> \in Range(input_chars)
                                   THEN output_chars[
                                            IndexOf(input_chars,
                                                    <<matched_char>>) + 1]
                                   ELSE <<matched_char>>),
                               cats)
             ELSE BuildOutput(matched_segment, input_pattern, output_pattern,
                              i + 1, Append(result, <<output_char>>), cats)

\* get_replacement_output without its first case
get_replacement_output_NoShortcut(matched_segment, input_pattern, output_pattern, cats) ==
    IF Len(input_pattern) # Len(output_pattern)
    THEN IF /\ Len(input_pattern) = 1 /\ input_pattern[1] \in DOMAIN cats
            /\ Len(output_pattern) = 1 /\ output_pattern[1] \in DOMAIN cats
         THEN LET input_chars  == UniqueMembers(input_pattern[1], cats)
                  output_chars == UniqueMembers(output_pattern[1], cats)
              IN  IF Len(input_chars) # Len(output_chars) THEN None
                  ELSE IF <<matched_segment[1]>> \in Range(input_chars)
                  THEN output_chars[IndexOf(input_chars,
                                            <<matched_segment[1]>>) + 1]
                  ELSE None
         ELSE output_pattern
    ELSE BuildOutput(matched_segment, input_pattern, output_pattern, 0, <<>>,
                     cats)

\* get_replacement_output: the output for one matched segment, or None
get_replacement_output(matched_segment, input_pattern, output_pattern, cats) ==
    IF output_pattern = <<DOUBLING>> THEN matched_segment \o matched_segment
    ELSE IF Len(input_pattern) # Len(output_pattern)
    THEN IF /\ Len(input_pattern) = 1 /\ input_pattern[1] \in DOMAIN cats
            /\ Len(output_pattern) = 1 /\ output_pattern[1] \in DOMAIN cats
         THEN LET input_chars  == UniqueMembers(input_pattern[1], cats)
                  output_chars == UniqueMembers(output_pattern[1], cats)
              IN  IF Len(input_chars) # Len(output_chars) THEN None
                  ELSE IF <<matched_segment[1]>> \in Range(input_chars)
                  THEN output_chars[IndexOf(input_chars,
                                            <<matched_segment[1]>>) + 1]
                  ELSE None
         ELSE output_pattern
    ELSE BuildOutput(matched_segment, input_pattern, output_pattern, 0, <<>>,
                     cats)

\* apply_insertion_rule: the loop over the positions of '#' + word + '#'
RECURSIVE InsertionScan(_, _, _, _, _, _)
InsertionScan(bounded_word, i, output_part, environment, result, cats) ==
    IF i >= Len(bounded_word) THEN Join(result)
    ELSE LET m    == match_environment(bounded_word, i, environment, cats)
             ins  == IF m = "True" THEN Append(result, output_part)
                     ELSE result
             next == IF bounded_word[i + 1] # "#"
                     THEN Append(ins, <<bounded_word[i + 1]>>) ELSE ins
         IN  IF m = "ValueError" THEN Raised
             ELSE InsertionScan(bounded_word, i + 1, output_part, environment,
                                next, cats)

apply_insertion_rule(word, output_part, environment, cats) ==
    InsertionScan(<<"#">> \o word \o <<"#">>, 0, output_part, environment,
                  <<>>, cats)

\* apply_deletion_rule: the while loop from position i
RECURSIVE DeletionScan(_, _, _, _, _, _)
DeletionScan(word, i, input_part, environment, result, cats) ==
    IF i >= Len(word) THEN Join(result)
    ELSE LET fits == i + Len(input_part) <= Len(word)
             potential_match == Slice(word, i, i + Len(input_part))
             input_match ==
                 fits /\ match_input_at_position(potential_match, input_part,
                                                 cats)
             env_match ==
                 IF ~ input_match THEN "False"
                 ELSE IF environment = <<"_">> THEN "True"
                 ELSE match_environment_for_segment(
                          word, i, Len(input_part), environment, cats)
         IN  IF env_match = "ValueError" THEN Raised
             ELSE IF env_match = "True"
             THEN DeletionScan(word, i + Len(input_part), input_part,
                               environment, result, cats)
             ELSE DeletionScan(word, i + 1, input_part, environment,
                               Append(result, <<word[i + 1]>>), cats)

apply_deletion_rule(word, input_part, environment, cats) ==
    DeletionScan(word, 0, input_part, environment, <<>>, cats)

\* apply_standard_replacement: the while loop from position i
RECURSIVE ReplacementScan(_, _, _, _, _, _, _)
ReplacementScan(word, i, input_part, output_part, environment, result, cats) ==
    IF i >= Len(word) THEN Join(result)
    ELSE LET fits == i + Len(input_part) <= Len(word)
             potential_match == Slice(word, i, i + Len(input_part))
             input_match ==
                 fits /\ match_input_at_position(potential_match, input_part,
                                                 cats)
             env_match ==
                 IF ~ input_match THEN "False"
                 ELSE IF environment = <<"_">> THEN "True"
                 ELSE IF Len(input_part) = 1
                 THEN match_environment(word, i, environment, cats)
                 ELSE match_environment_for_segment(
                          word, i, Len(input_part), environment, cats)
             replacement ==
                 IF env_match = "True"
                 THEN get_replacement_output(potential_match, input_part,
                                             output_part, cats)
                 ELSE None
         IN  IF env_match = "ValueError" THEN Raised
             ELSE IF replacement # None
             THEN ReplacementScan(word, i + Len(input_part), input_part,
                                  output_part, environment,
                                  Append(result, replacement), cats)
             ELSE ReplacementScan(word, i + 1, input_part, output_part,
                                  environment,
                                  Append(result, <<word[i + 1]>>), cats)

\* the variant that scans the text it has emitted once more
apply_standard_replacement_Rescan(word, input_part, output_part, environment, cats) ==
    LET once == ReplacementScan(word, 0, input_part, output_part,
                                environment, <<>>, cats)
    IN  IF once = Raised THEN Raised
        ELSE ReplacementScan(once, 0, input_part, output_part, environment,
                             <<>>, cats)

apply_standard_replacement(word, input_part, output_part, environment, cats) ==
    ReplacementScan(word, 0, input_part, output_part, environment, <<>>, cats)

(***************************************************************************)
(* Syllable and stress rules (core/sound_changes.py)                       *)
(***************************************************************************)
\* sub in s, for a str sub
Contains(s, sub) ==
    \E k \in 1..(Len(s) - Len(sub) + 1) : SubSeq(s, k, k + Len(sub) - 1) = sub

\* parse_syllable_in_rule: the stress type; is_syllable is "SIGMA in rule_part"
SyllableStressInRule(rule_part) ==
    IF ~ InStr(SIGMA, rule_part) THEN "none"
    ELSE IF Contains(rule_part, <<PRIMARY, SIGMA>>) THEN "primary"
    ELSE IF Contains(rule_part, <<SECONDARY, SIGMA>>) THEN "secondary"
    ELSE IF Contains(rule_part, <<BREVE, SIGMA>>) THEN "unstressed"
    ELSE "none"

get_syllable_stress_type(syllable) ==
    IF StartsWith(syllable, <<PRIMARY>>) THEN "primary"
    ELSE IF StartsWith(syllable, <<SECONDARY>>) THEN "secondary"
    ELSE "unstressed"

split_syllabified_word(word) ==
    IF ~ InStr(DOT, word) THEN <<word>> ELSE Split(word, <<DOT>>)

\* '.'.join(syllables)
RECURSIVE join_syllables(_)
join_syllables(syllables) ==
    IF syllables = <<>> THEN <<>>
    ELSE IF Len(syllables) = 1 THEN syllables[1]
    ELSE syllables[1] \o <<DOT>> \o join_syllables(Tail(syllables))

\* the variant that leaves every stress mark where it is
remove_stress_from_syllables_Keep(syllables, stress_type) == syllables

remove_stress_from_syllables(syllables, stress_type) ==
    LET stress_char == IF stress_type = "primary" THEN PRIMARY ELSE SECONDARY
    IN  [k \in 1..Len(syllables) |->
            IF StartsWith(syllables[k], <<stress_char>>)
            THEN SliceFrom(syllables[k], 1) ELSE syllables[k]]

\* the syllables kept by the deletion loop
RECURSIVE KeptSyllables(_, _, _, _)
KeptSyllables(syllables, i, input_stress, environment) ==
    IF i >= Len(syllables) THEN <<>>
    ELSE LET should_delete ==
                 IF input_stress = "none"
                 THEN IF environment = <<"#", "_">> THEN i = 0
                      ELSE IF environment = <<"_", "#">>
                      THEN i = Len(syllables) - 1
                      ELSE environment = <<"_">>
                 ELSE get_syllable_stress_type(syllables[i + 1]) = input_stress
         IN  (IF should_delete THEN <<>> ELSE <<syllables[i + 1]>>)
                \o KeptSyllables(syllables, i + 1, input_stress, environment)

\* a syllable without its leading stress mark
Unstressed(syll) ==
    IF StartsWith(syll, <<PRIMARY>>) \/ StartsWith(syll, <<SECONDARY>>)
    THEN SliceFrom(syll, 1) ELSE syll

apply_syllable_replacement(word, rule) ==
    LET syllables     == split_syllabified_word(word)
        input_stress  == SyllableStressInRule(rule.input)
        output_stress == SyllableStressInRule(rule.output)
        input_is_syllable  == InStr(SIGMA, rule.input)
        output_is_syllable == InStr(SIGMA, rule.output)
        removed == IF output_stress \in {"primary", "secondary"}
                   THEN remove_stress_from_syllables(syllables, output_stress)
                   ELSE syllables
        stress_char == IF output_stress = "primary" THEN PRIMARY
                       ELSE SECONDARY
        n == Len(removed)
        moved ==
            IF rule.environment = <<"#", "_">> /\ n > 0
            THEN [removed EXCEPT ![1] = <<stress_char>> \o Unstressed(removed[1])]
            ELSE IF rule.environment = <<"_", "#">> /\ n > 0
            THEN [removed EXCEPT ![n] = <<stress_char>> \o Unstressed(removed[n])]
            ELSE removed
    IN  IF ~ input_is_syllable THEN word
        ELSE IF rule.output = <<>>
        THEN join_syllables(KeptSyllables(syllables, 0, input_stress,
                                          rule.environment))
        ELSE IF output_is_syllable
                   /\ input_stress = "none" /\ output_stress # "none"
        THEN join_syllables(moved)
        ELSE word

\* s.replace(old, new)
RECURSIVE ReplaceFrom(_, _, _, _)
ReplaceFrom(s, old, new, k) ==
    IF old = <<>>
    THEN IF k > Len(s) THEN new
         ELSE new \o <<s[k]>> \o ReplaceFrom(s, old, new, k + 1)
    ELSE IF k > Len(s) THEN <<>>
    ELSE IF k + Len(old) - 1 <= Len(s) /\ SubSeq(s, k, k + Len(old) - 1) = old
    THEN new \o ReplaceFrom(s, old, new, k + Len(old))
    ELSE <<s[k]>> \o ReplaceFrom(s, old, new, k + 1)

Replace(s, old, new) == ReplaceFrom(s, old, new, 1)

apply_stress_sensitive_character_replacement(word, rule) ==
    LET stress_context ==
            IF InStr(PRIMARY, rule.environment) THEN "primary"
            ELSE IF InStr(SECONDARY, rule.environment) THEN "secondary"
            ELSE IF InStr(BREVE, rule.environment) THEN "unstressed"
            ELSE "none"
        syllables == split_syllabified_word(word)
        Modified(syllable) ==
            LET stress_prefix ==
                    IF StartsWith(syllable, <<PRIMARY>>) THEN <<PRIMARY>>
                    ELSE IF StartsWith(syllable, <<SECONDARY>>)
                    THEN <<SECONDARY>> ELSE <<>>
                clean_syllable == SliceFrom(syllable, Len(stress_prefix))
            IN  stress_prefix \o Replace(clean_syllable, rule.input,
                                         rule.output)
    IN  IF stress_context = "none" THEN word
        ELSE join_syllables(
                 [k \in 1..Len(syllables) |->
                     IF get_syllable_stress_type(syllables[k]) = stress_context
                     THEN Modified(syllables[k]) ELSE syllables[k]])

\* apply_replacement_rule: the new word, or Raised
apply_replacement_rule(word, rule, cats, syllabify_mode) ==
    LET rule_str == rule.input \o rule.output \o rule.environment
    IN  IF ~ syllabify_mode /\ is_syllable_sensitive_rule(rule_str) THEN word
        ELSE IF /\ syllabify_mode /\ is_syllable_sensitive_rule(rule_str)
                /\ (InStr(SIGMA, rule.input) \/ InStr(SIGMA, rule.output))
        THEN apply_syllable_replacement(word, rule)
        ELSE IF /\ syllabify_mode /\ is_syllable_sensitive_rule(rule_str)
                /\ \E char \in {PRIMARY, SECONDARY, BREVE} :
                       InStr(char, rule.environment)
        THEN apply_stress_sensitive_character_replacement(word, rule)
        ELSE IF rule.input = <<>>
        THEN apply_insertion_rule(word, rule.output, rule.environment, cats)
        ELSE IF rule.output = <<>>
        THEN apply_deletion_rule(word, rule.input, rule.environment, cats)
        ELSE apply_standard_replacement(word, rule.input, rule.output,
                                        rule.environment, cats)

\* the check with the comparison of the two sizes turned round
CategoryLengthMismatch_Equal(rule, cats) ==
    /\ Len(rule.input) = 1 /\ rule.input[1] \in DOMAIN cats
    /\ Len(rule.output) = 1 /\ rule.output[1] \in DOMAIN cats
    /\ Len(Dedup(cats[rule.input[1]])) = Len(Dedup(cats[rule.output[1]]))

\* the check of apply_replacement_rules for two categories of different size
CategoryLengthMismatch(rule, cats) ==
    /\ Len(rule.input) = 1 /\ rule.input[1] \in DOMAIN cats
    /\ Len(rule.output) = 1 /\ rule.output[1] \in DOMAIN cats
    /\ Len(UniqueMembers(rule.input[1], cats))
          # Len(UniqueMembers(rule.output[1], cats))

(***************************************************************************)
(* Inputs of the pattern expanders.                                        *)
(***************************************************************************)
MaxPatLen == 5

MaxItems == 3

PatChars == {"(", ")", "!", ",", "a"}

\* every string over PatChars of length at most MaxPatLen
RawPatterns == UNION {[1..n -> PatChars] : n \in 0..MaxPatLen}

\* literals and groups that are concatenated into patterns
PatItems ==
    { <<"a">>,
      <<"(", "b", ")">>,
      <<"(", "!", "b", ")">>,
      <<"(", "b", ",", "c", ")">>,
      <<"(", "!", "b", ",", "c", ")">>,
      <<"(", ")">>,
      <<"(", " ", "b", " ", ",", "c", ")">>,
      <<"(", "b", "(", "c", ",", "d", ")", ")">> }

ItemPatterns ==
    {Join(l) : l \in UNION {[1..n -> PatItems] : n \in 0..MaxItems}}

\* patterns of the documentation and the tests
ExamplePatterns ==
    { <<"C", "V">>,
      <<"C", "V", "(", "C", ")">>,
      <<"C", "V", "(", "C", ")", "(", "V", ")">>,
      <<"S", "(", "F", ",", "L", ")", "V", "C">>,
      <<"S", "(", "!", "F", ",", "L", ")", "V", "C">>,
      <<"#", "(", "V", ")", "_", "V">> }

Patterns == RawPatterns \cup ItemPatterns \cup ExamplePatterns

NotRun == <<>>

\* no scan is followed step by step
ScanIdle ==
    /\ scan = "none"
    /\ scan_i = 0
    /\ scan_depth = 0
    /\ scan_start = 0
    /\ scan_result = <<>>
    /\ scan_matches = <<>>

\* parse_input_file and select_random_rule have not run, and main has no
\* syllabification rules: None and rules without onsets, codas and stress
\* patterns make the same output, and stand as the same value here
FrontIdle ==
    /\ lines = <<>>
    /\ line_idx = 0
    /\ in_dict_section = FALSE
    /\ dict_started = FALSE
    /\ in_syll_section = FALSE
    /\ structure_rules = <<>>
    /\ dict_words = <<>>
    /\ syll_rules = <<>>
    /\ weighted_rules = <<>>
    /\ random_value = 0
    /\ selected_rule = <<>>
    /\ syllabification_rules =
           [allowed_onsets |-> <<>>, allowed_codas |-> <<>>,
            stress_patterns |-> <<>>]
    /\ ScanIdle

InitExpand ==
    /\ pc = "pattern"
    /\ pattern \in Patterns
    /\ expanded_rules = NotRun
    /\ expanded_environments = NotRun
    /\ words = <<>>
    /\ replacement_rules = <<>>
    /\ categories = <<>>
    /\ dict_mode = FALSE
    /\ syllabify = FALSE
    /\ show_rules = FALSE
    /\ word_idx = 0
    /\ rule_idx = 0
    /\ current_word = <<>>
    /\ processed_words = <<>>
    /\ applied_rules = <<>>
    /\ applied_rules_list = <<>>
    /\ warnings = <<>>
    /\ out_words = <<>>
    /\ FrontIdle

\* a word-structure line is expanded by expand_rule
ExpandRule ==
    /\ pc = "pattern"
    /\ expanded_rules' = expand_rule(pattern)
    /\ pc' = "rule_expanded"
    /\ UNCHANGED <<pattern, expanded_environments>>
    /\ UNCHANGED engineVars
    /\ UNCHANGED frontVars

\* a rule environment is expanded by expand_environment_rule
ExpandEnvironmentRule ==
    /\ pc = "pattern"
    /\ expanded_environments' = expand_environment_rule(pattern)
    /\ pc' = "environment_expanded"
    /\ UNCHANGED <<pattern, expanded_rules>>
    /\ UNCHANGED engineVars
    /\ UNCHANGED frontVars

NextExpand == ExpandRule \/ ExpandEnvironmentRule

SpecExpand == InitExpand /\ [][NextExpand]_vars

(***************************************************************************)
(* main (word_generator.py) and apply_replacement_rules                    *)
(* (core/sound_changes.py), for input files without a -syll section.       *)
(*                                                                         *)
(* pc: "main" (the input file is parsed and the words are at hand),        *)
(* "next_word" / "next_rule" (the two loops of apply_replacement_rules),   *)
(* "done" (the words are handed to write_output_file), "raised" (an        *)
(* exception left apply_replacement_rules).                                *)
(***************************************************************************)
\* expand_weighted_category (core/parser.py): each member weight times
RECURSIVE expand_weighted_category(_)
expand_weighted_category(weighted_items) ==
    IF weighted_items = <<>> THEN <<>>
    ELSE [k \in 1..Head(weighted_items).weight |-> Head(weighted_items).char]
            \o expand_weighted_category(Tail(weighted_items))

\* parse_weighted_category for a part without braces: weight 1 per character
Unweighted(part) == [k \in 1..Len(part) |-> [char |-> <<part[k]>>, weight |-> 1]]

W(char, weight) == [char |-> char, weight |-> weight]

InitEngine(WordLists, RuleLists, Tables, DictModes, SyllabifyModes, ShowRulesModes) ==
    /\ pc = "main"
    /\ pattern = <<>>
    /\ expanded_rules = NotRun
    /\ expanded_environments = NotRun
    /\ words \in WordLists
    /\ replacement_rules \in RuleLists
    /\ categories \in Tables
    /\ dict_mode \in DictModes
    /\ syllabify \in SyllabifyModes
    /\ show_rules \in ShowRulesModes
    /\ word_idx = 0
    /\ rule_idx = 0
    /\ current_word = <<>>
    /\ processed_words = <<>>
    /\ applied_rules = <<>>
    /\ applied_rules_list = <<>>
    /\ warnings = <<>>
    /\ out_words = <<>>
    /\ FrontIdle

\* main: "if replacement_rules:" calls apply_replacement_rules
StartRules ==
    /\ pc = "main"
    /\ replacement_rules # <<>>
    /\ pc' = "next_word"
    /\ word_idx' = 0
    /\ processed_words' = <<>>
    /\ applied_rules_list' = <<>>
    /\ UNCHANGED <<words, replacement_rules, categories, dict_mode, syllabify,
                   show_rules, rule_idx, current_word, applied_rules,
                   warnings, out_words>>
    /\ UNCHANGED expandVars
    /\ UNCHANGED frontVars

\* main: without replacement rules the words go to the output as they are
SkipRules ==
    /\ pc = "main"
    /\ replacement_rules = <<>>
    /\ pc' = "done"
    /\ out_words' = words
    /\ UNCHANGED <<words, replacement_rules, categories, dict_mode, syllabify,
                   show_rules, word_idx, rule_idx, current_word,
                   processed_words, applied_rules, applied_rules_list,
                   warnings>>
    /\ UNCHANGED expandVars
    /\ UNCHANGED frontVars

\* "for word in words": clean_dict_words is args.dict_mode
BeginWord ==
    /\ pc = "next_word"
    /\ word_idx < Len(words)
    /\ current_word' = IF dict_mode
                       THEN clean_word_for_processing(words[word_idx + 1])
                       ELSE words[word_idx + 1]
    /\ applied_rules' = <<>>
    /\ rule_idx' = 0
    /\ pc' = "next_rule"
    /\ UNCHANGED <<words, replacement_rules, categories, dict_mode, syllabify,
                   show_rules, word_idx, processed_words, applied_rules_list,
                   warnings, out_words>>
    /\ UNCHANGED expandVars
    /\ UNCHANGED frontVars

\* the rule list walked from its end
RuleAt_Reversed(rules, idx) == rules[Len(rules) - idx]

\* the rule_str of pass number rule_idx (from 0) of
\* "for rule_str, line_num in replacement_rules"
RuleAt(rules, idx) == rules[idx + 1]

\* one pass of "for rule_str, line_num in replacement_rules"
ApplyRule ==
    /\ pc = "next_rule"
    /\ rule_idx < Len(replacement_rules)
    /\ LET rule_str    == RuleAt(replacement_rules, rule_idx)
           line_num    == rule_idx + 1
           parsed_rule == parse_replacement_rule(rule_str)
           new_word    == apply_replacement_rule(current_word, parsed_rule,
                                                 categories, syllabify)
       IN  IF ~ parsed_rule.valid
           THEN /\ warnings' = Append(warnings,
                                      [kind |-> "invalid_rule",
                                       line_num |-> line_num])
                /\ rule_idx' = rule_idx + 1
                /\ UNCHANGED <<pc, current_word, applied_rules>>
           ELSE IF CategoryLengthMismatch(parsed_rule, categories)
           THEN /\ warnings' = Append(warnings,
                                      [kind |-> "category_mismatch",
                                       line_num |-> line_num])
                /\ rule_idx' = rule_idx + 1
                /\ UNCHANGED <<pc, current_word, applied_rules>>
           ELSE IF new_word = Raised
           THEN /\ pc' = "raised"
                /\ UNCHANGED <<rule_idx, current_word, applied_rules,
                               warnings>>
           ELSE /\ current_word' = new_word
                /\ applied_rules' =
                       IF show_rules /\ new_word # current_word
                       THEN Append(applied_rules, rule_str)
                       ELSE applied_rules
                /\ rule_idx' = rule_idx + 1
                /\ UNCHANGED <<pc, warnings>>
    /\ UNCHANGED <<words, replacement_rules, categories, dict_mode, syllabify,
                   show_rules, word_idx, processed_words, applied_rules_list,
                   out_words>>
    /\ UNCHANGED expandVars
    /\ UNCHANGED frontVars

\* processed_words.append(current_word)
EndWord ==
    /\ pc = "next_rule"
    /\ rule_idx = Len(replacement_rules)
    /\ processed_words' = Append(processed_words, current_word)
    /\ applied_rules_list' = IF show_rules
                             THEN Append(applied_rules_list, applied_rules)
                             ELSE applied_rules_list
    /\ word_idx' = word_idx + 1
    /\ pc' = "next_word"
    /\ UNCHANGED <<words, replacement_rules, categories, dict_mode, syllabify,
                   show_rules, rule_idx, current_word, applied_rules,
                   warnings, out_words>>
    /\ UNCHANGED expandVars
    /\ UNCHANGED frontVars

\* apply_replacement_rules returns; main hands the words to the output
EndRules ==
    /\ pc = "next_word"
    /\ word_idx = Len(words)
    /\ out_words' = processed_words
    /\ pc' = "done"
    /\ UNCHANGED <<words, replacement_rules, categories, dict_mode, syllabify,
                   show_rules, word_idx, rule_idx, current_word,
                   processed_words, applied_rules, applied_rules_list,
                   warnings>>
    /\ UNCHANGED expandVars
    /\ UNCHANGED frontVars

Next == StartRules \/ SkipRules \/ BeginWord \/ ApplyRule \/ EndWord
           \/ EndRules

\* every list of 0..n elements of S
ListsUpTo(S, n) == UNION {[1..k -> S] : k \in 0..n}

\* every list of 1..n elements of S
ListsFrom1(S, n) == UNION {[1..k -> S] : k \in 1..n}

\* every str over Chars of length at most n
WordsUpTo(Chars, n) == UNION {[1..k -> Chars] : k \in 0..n}

(***************************************************************************)
(* Inputs of the engine: rule lists, word lists and category tables.       *)
(***************************************************************************)
MaxRules == 2

MaxWords == 2

\* V: aeiou / C: bc / P: ptk / B: bdg (test_category_length_mismatch)
MismatchTable ==
    ("V" :> expand_weighted_category(Unweighted(<<"a", "e", "i", "o", "u">>)))
 @@ ("C" :> expand_weighted_category(Unweighted(<<"b", "c">>)))
 @@ ("P" :> expand_weighted_category(Unweighted(<<"p", "t", "k">>)))
 @@ ("B" :> expand_weighted_category(Unweighted(<<"b", "d", "g">>)))

R_a_e == <<"a", "/", "e", "/", "_">>
R_e_i == <<"e", "/", "i", "/", "_">>
R_a_o == <<"a", "/", "o", "/", "_">>
R_V_C == <<"V", "/", "C", "/", "_">>
R_no_separator == <<"a", "b", "c">>
R_open_bracket == <<"a", "/", "e", "/", "_", "[">>

GeneralRules ==
    {R_a_e, R_e_i, R_a_o, R_V_C, R_no_separator, R_open_bracket}

W_a == <<"a">>
W_mela == <<"m", "e", "l", "a">>

GeneralWords == {W_a, W_mela}

\* runs without -s and with -r, in generation and in dictionary mode
Init ==
    InitEngine(ListsFrom1(GeneralWords, MaxWords),
               ListsUpTo(GeneralRules, MaxRules),
               {MismatchTable}, BOOLEAN, {FALSE}, {TRUE})

Spec == Init /\ [][Next]_vars

R_a_stressed == <<"a", "/", PRIMARY, "a", "/", "_">>
R_a_dot == <<"a", "/", DOT, "/", "_">>
R_first_syllable == <<SIGMA, "/", "/", "#", "_">>
R_a_e_in_stressed == <<"a", "/", "e", "/", PRIMARY, "_">>

DictRules == {R_a_e, R_a_dot, R_a_stressed, R_first_syllable, R_a_e_in_stressed}

W_banana_marked == <<"b", "a", DOT, PRIMARY, "n", "a", DOT, "n", "a">>

DictWords == {W_mela, W_banana_marked}

\* runs with and without -d and -s on words that hold syllable marks
InitDict ==
    InitEngine(ListsFrom1(DictWords, MaxWords),
               ListsUpTo(DictRules, MaxRules),
               {MismatchTable}, BOOLEAN, BOOLEAN, {TRUE})

SpecDict == InitDict /\ [][Next]_vars

(***************************************************************************)
(* Runs of one rule on one word: the category rules, the deletions before  *)
(* the word end, the doublings and the bracket classes.                    *)
(***************************************************************************)
MaxWordLen == 4

MaxInputLen == 2

\* the rule list of an input file with one replacement rule or none
OneRuleOrNone(Rules) == {<<>>} \cup {<<r>> : r \in Rules}

\* a dictionary or a generated list of one word
OneWord(Words) == {<<w>> : w \in Words}

\* the rule line input/output/environment
RuleLine(input, output, environment) ==
    input \o <<"/">> \o output \o <<"/">> \o environment

\* every str over Chars of length 1..n
InputsUpTo(Chars, n) == WordsUpTo(Chars, n) \ {<<>>}

\* P: p{1} t{2} k{3} / B: b{3} d{2} g{1}
\* (test_equal_length_weighted_categories)
WeightedTable ==
    ("P" :> expand_weighted_category(
                <<W(<<"p">>, 1), W(<<"t">>, 2), W(<<"k">>, 3)>>))
 @@ ("B" :> expand_weighted_category(
                <<W(<<"b">>, 3), W(<<"d">>, 2), W(<<"g">>, 1)>>))

\* P: pt p{2} k / B: bb{1} d g: a member that comes back after another
\* one, and a member of two characters
TokenTable ==
    ("P" :> expand_weighted_category(
                Unweighted(<<"p", "t">>) \o <<W(<<"p">>, 2)>>
                   \o Unweighted(<<"k">>)))
 @@ ("B" :> expand_weighted_category(
                <<W(<<"b", "b">>, 1)>> \o Unweighted(<<"d">>)
                   \o Unweighted(<<"g">>)))

CategoryRules ==
    {RuleLine(<<X>>, <<Y>>, <<"_">>) : X \in {"P", "B"}, Y \in {"P", "B"}}

CategoryWords == WordsUpTo({"p", "t", "g", "a"}, MaxWordLen)

InitCategory ==
    InitEngine(OneWord(CategoryWords), OneRuleOrNone(CategoryRules),
               {MismatchTable, WeightedTable, TokenTable},
               {FALSE}, {FALSE}, {FALSE})

SpecCategory == InitCategory /\ [][Next]_vars

\* the rules X//_#
DeletionInputs ==
    InputsUpTo({"k", "a", "V"}, MaxInputLen) \cup {<<"u", "s">>}

DeletionRules == {RuleLine(X, <<>>, <<"_", "#">>) : X \in DeletionInputs}

DeletionWords ==
    WordsUpTo({"k", "a", "t"}, MaxWordLen)
       \cup {<<"b", "a", "n", "a", "n", "a">>, <<"b", "o", "n", "u", "s">>}

InitDeletion ==
    InitEngine(OneWord(DeletionWords), OneRuleOrNone(DeletionRules),
               {MismatchTable}, {FALSE}, {FALSE}, {FALSE})

SpecDeletion == InitDeletion /\ [][Next]_vars

\* the rules X/²/E
DoublingInputs == InputsUpTo({"a", "t"}, MaxInputLen) \cup {<<"n">>, <<"P">>}

DoublingEnvironments ==
    {<<"_">>, <<"_", "a">>, <<"a", "_">>, <<"#", "_">>, <<"_", "#">>,
     <<"V", "_">>}

DoublingRules ==
    {RuleLine(X, <<DOUBLING>>, E) :
        X \in DoublingInputs, E \in DoublingEnvironments}

DoublingWords ==
    WordsUpTo({"a", "t"}, MaxWordLen)
       \cup {<<"b", "a", "n", "a">>, <<"m", "a", "l", "a">>}

InitDoubling ==
    InitEngine(OneWord(DoublingWords), OneRuleOrNone(DoublingRules),
               {MismatchTable}, {FALSE}, {FALSE}, {FALSE})

SpecDoubling == InitDoubling /\ [][Next]_vars

\* V: aeiou / C: bcdfghjklmnpqrstvwxyz / L: lr / N: mn
\* (test_complete_workflow)
WorkflowTable ==
    ("V" :> expand_weighted_category(Unweighted(<<"a", "e", "i", "o", "u">>)))
 @@ ("C" :> expand_weighted_category(Unweighted(
                <<"b", "c", "d", "f", "g", "h", "j", "k", "l", "m", "n",
                  "p", "q", "r", "s", "t", "v", "w", "x", "y", "z">>)))
 @@ ("L" :> expand_weighted_category(Unweighted(<<"l", "r">>)))
 @@ ("N" :> expand_weighted_category(Unweighted(<<"m", "n">>)))

R_N_m_before_pb == RuleLine(<<"N">>, <<"m">>, <<"_", "[", "p", "b", "]">>)

R_t_s_after_aei == RuleLine(<<"t">>, <<"s">>, <<"[", "a", "e", "i", "]", "_">>)

BracketWords ==
    WordsUpTo({"n", "p", "a", "t"}, MaxWordLen)
       \cup {<<"a", "n", "b", "a">>, <<"i", "t", "e", "t">>}

InitBracket ==
    InitEngine(OneWord(BracketWords),
               OneRuleOrNone({R_N_m_before_pb, R_t_s_after_aei}),
               {WorkflowTable}, {FALSE}, {FALSE}, {FALSE})

SpecBracket == InitBracket /\ [][Next]_vars

(***************************************************************************)
(* The effect of rules on one word, as the claims speak of it.             *)
(***************************************************************************)
\* the word the rules of apply_replacement_rules start from
StartWord(k) ==
    IF dict_mode THEN clean_word_for_processing(words[k]) ELSE words[k]

\* what one rule of the list does to a word: an unparsable rule and a rule
\* between categories of different size leave it alone
RuleEffect(word, rule_str) ==
    LET parsed_rule == parse_replacement_rule(rule_str)
    IN  IF ~ parsed_rule.valid THEN word
        ELSE IF CategoryLengthMismatch(parsed_rule, categories) THEN word
        ELSE apply_replacement_rule(word, parsed_rule, categories, syllabify)

\* rule n applied to the result of rules 1..n-1
RECURSIVE AfterRules(_, _, _)
AfterRules(word, rules, n) ==
    IF n = 0 THEN word
    ELSE RuleEffect(AfterRules(word, rules, n - 1), rules[n])

\* C3: the rules are applied to each word in list order, each rule to the
\* word the previous rule produced: after n rules the word is rule n
\* applied to the result of rules 1..n-1, and [a/e/_, e/i/_] turns a into i,
\* [a/o/_, e/i/_] turns mela into milo.
C3_RulesInListOrder ==
    /\ pc = "next_rule" =>
          current_word = AfterRules(StartWord(word_idx + 1),
                                    replacement_rules, rule_idx)
    /\ (pc = "done" /\ replacement_rules # <<>>) =>
          /\ Len(out_words) = Len(words)
          /\ \A k \in 1..Len(words) :
                /\ out_words[k] = AfterRules(StartWord(k), replacement_rules,
                                             Len(replacement_rules))
                /\ (replacement_rules = <<R_a_e, R_e_i>> /\ words[k] = W_a)
                      => out_words[k] = <<"i">>
                /\ (replacement_rules = <<R_a_o, R_e_i>> /\ words[k] = W_mela)
                      => out_words[k] = <<"m", "i", "l", "o">>

C3_Witness ==
    /\ pc = "done"
    /\ replacement_rules = <<R_a_e, R_e_i>>
    /\ words = <<W_mela, W_a>>
    /\ out_words = <<(<<"m", "i", "l", "i">>), (<<"i">>)>>

\* the elements of a list that are in Keep, in list order
RECURSIVE SelectIn(_, _)
SelectIn(l, Keep) ==
    IF l = <<>> THEN <<>>
    ELSE (IF Head(l) \in Keep THEN <<Head(l)>> ELSE <<>>)
            \o SelectIn(Tail(l), Keep)

\* the rules of the list that satisfy Keep, in list order
SelectRules(rules, Keep(_)) ==
    SelectIn(rules, {r \in Range(rules) : Keep(r)})

\* the number of different members of a category
UniqueCount(symbol) == Cardinality(Range(categories[symbol]))

\* a rule from one category symbol to another with a different number of
\* different members
IsMismatchRule(rule_str) ==
    LET r == parse_replacement_rule(rule_str)
    IN  /\ r.valid
        /\ Len(r.input) = 1 /\ r.input[1] \in DOMAIN categories
        /\ Len(r.output) = 1 /\ r.output[1] \in DOMAIN categories
        /\ UniqueCount(r.input[1]) # UniqueCount(r.output[1])

NotMismatchRule(rule_str) == ~ IsMismatchRule(rule_str)

\* C5: a rule between two categories of different size leaves the word as
\* it was, emits a diagnostic and does not raise; the loop goes on with the
\* next rule, and the words that come out are those of the list without
\* such rules.
C5_MismatchRuleSkipped ==
    /\ [][(/\ pc = "next_rule"
           /\ rule_idx < Len(replacement_rules)
           /\ IsMismatchRule(replacement_rules[rule_idx + 1]))
          => (/\ pc' = "next_rule"
              /\ current_word' = current_word
              /\ rule_idx' = rule_idx + 1
              /\ warnings' = Append(warnings,
                                    [kind |-> "category_mismatch",
                                     line_num |-> rule_idx + 1]))]_vars
    /\ [](( pc = "done" /\ replacement_rules # <<>>) =>
            \A k \in 1..Len(words) :
                LET others == SelectRules(replacement_rules, NotMismatchRule)
                IN  out_words[k] = AfterRules(StartWord(k), others,
                                              Len(others)))

C5_Witness ==
    /\ pc = "done"
    /\ replacement_rules = <<R_V_C, R_a_e>>
    /\ words = <<W_mela>>
    /\ out_words = <<(<<"m", "e", "l", "e">>)>>
    /\ warnings = <<[kind |-> "category_mismatch", line_num |-> 1]>>

\* a word that holds a syllable break or a stress mark
HasMark(word) == \E c \in {DOT, PRIMARY, SECONDARY} : InStr(c, word)

\* a rule whose output holds a syllable break
EmitsDot(rule_str) ==
    LET r == parse_replacement_rule(rule_str)
    IN  r.valid /\ InStr(DOT, r.output)

IsSyllableRule(rule_str) ==
    LET r == parse_replacement_rule(rule_str)
    IN  /\ r.valid
        /\ Range(r.input \o r.output \o r.environment)
              \cap {SIGMA, PRIMARY, SECONDARY, BREVE} # {}

NotSyllableRule(rule_str) == ~ IsSyllableRule(rule_str)

\* C9: with syllabification mode off a rule that holds a syllable or stress
\* sign leaves the word unchanged, and the words that come out are those of
\* the list without such rules.
C9_SyllableRulesSkipped ==
    /\ [][(/\ pc = "next_rule"
           /\ ~ syllabify
           /\ rule_idx < Len(replacement_rules)
           /\ IsSyllableRule(replacement_rules[rule_idx + 1]))
          => (/\ pc' = "next_rule"
              /\ current_word' = current_word
              /\ rule_idx' = rule_idx + 1)]_vars
    /\ []((pc = "done" /\ ~ syllabify /\ replacement_rules # <<>>) =>
            \A k \in 1..Len(words) :
                LET others == SelectRules(replacement_rules, NotSyllableRule)
                IN  out_words[k] = AfterRules(StartWord(k), others,
                                              Len(others)))

C9_Witness ==
    /\ pc = "done"
    /\ ~ syllabify
    /\ replacement_rules = <<R_a_stressed, R_a_e>>
    /\ words = <<W_mela>>
    /\ out_words = <<(<<"m", "e", "l", "e">>)>>

(***************************************************************************)
(* What the notation of a pattern means: one option per group.             *)
(***************************************************************************)
\* the groups of a pattern, left to right
GroupsOf(p) == FindGroups(p, 0, <<>>)

\* the options of a group as written: (!a,b) offers a, b; (a,b) offers
\* nothing, a, b
OptionsOf(content) ==
    IF StartsWith(content, <<"!">>)
    THEN RuleAlternatives(SliceFrom(content, 1))
    ELSE <<(<<>>)>> \o RuleAlternatives(content)

\* the strings of the pattern up to the literal text after group k, the
\* leftmost group varying fastest
RECURSIVE Combinations(_, _)
Combinations(p, k) ==
    LET groups == GroupsOf(p)
        n      == Len(groups)
    IN  IF n = 0 THEN <<p>>
        ELSE IF k = 0 THEN <<Slice(p, 0, groups[1].start)>>
        ELSE LET prev == Combinations(p, k - 1)
                 opts == OptionsOf(groups[k].content)
                 lit  == Slice(p, groups[k].end,
                               IF k < n THEN groups[k + 1].start ELSE Len(p))
             IN  [j \in 1..(Len(opts) * Len(prev)) |->
                     prev[((j - 1) % Len(prev)) + 1]
                        \o opts[((j - 1) \div Len(prev)) + 1] \o lit]

AllCombinations(p) == Combinations(p, Len(GroupsOf(p)))

NonNested(p) ==
    \A g \in Range(GroupsOf(p)) :
        ~ InStr("(", g.content) /\ ~ InStr(")", g.content)

\* C1: every string that expand_rule or expand_environment_rule returns
\* holds exactly one alternative of every mandatory group (it is one of the
\* combinations of one option per group, a mandatory group having no
\* "omitted" option).
C1_MandatoryGroupContributes ==
    /\ pc = "rule_expanded" =>
          \A s \in Range(expanded_rules) : s \in Range(AllCombinations(pattern))
    /\ pc = "environment_expanded" =>
          \A s \in Range(expanded_environments) :
              s \in Range(AllCombinations(pattern))

\* C2: for a pattern without nested groups expand_rule returns the
\* combinations of one option per group, leftmost group varying fastest,
\* each string once.
C2_OneStringPerCombination ==
    (pc = "rule_expanded" /\ NonNested(pattern)) =>
        expanded_rules = Dedup(AllCombinations(pattern))


\* environments that hold groups (test_optional_environments)
OptionalEnvironments ==
    {<<"#", "(", "V", ")", "_", "V">>, <<"(", "a", ")", "t", "_">>,
     <<"(", "a", ",", "t", ")", "_", "a">>, <<"_", "(", "a", ")", "(", "t", ")", "#">>,
     <<"(", "!", "a", ")", "(", "t", ")", "_">>,
     <<"(", "!", "a", ",", "t", ")", "_", "V">>}

\* one rule k/g/E or ka/g/E on one word over k, a, t or of the test
InitOptional ==
    InitEngine(OneWord(WordsUpTo({"k", "a", "t"}, MaxWordLen)
                          \cup {<<"k", "a", "s", "a">>,
                                <<"k", "v", "a", "s", "a">>,
                                <<"a", "k", "a", "s", "a">>}),
               OneRuleOrNone({RuleLine(X, <<"g">>, E) :
                                 X \in {<<"k">>, <<"k", "a">>},
                                 E \in OptionalEnvironments}),
               {MismatchTable}, {FALSE}, {FALSE}, {FALSE})

SpecOptional == InitOptional /\ [][Next]_vars

(***************************************************************************)
(* parse_input_file (core/parser.py): the lines of the input file are      *)
(* read one by one into the category table, the word-structure rules, the  *)
(* replacement rules, the dictionary words and the syllabification lines.  *)
(* pc: "parse" (the loop over the lines), "exit" (sys.exit(1)), "parsed"   *)
(* (parse_input_file has returned), "generate" (main hands the rules to    *)
(* generate_words), "dictionary" (main takes the dictionary words).        *)
(***************************************************************************)
\* str.isdigit and int() on the characters of the model
Digits == {"0", "1", "2", "3", "4", "5", "6", "7", "8", "9"}

\* str.isalpha on the characters of the model: the ASCII letters and the
\* letters σ, ˈ and ˌ
Letters ==
    {"a", "b", "c", "d", "e", "f", "g", "h", "i", "j", "k", "l", "m", "n",
     "o", "p", "q", "r", "s", "t", "u", "v", "w", "x", "y", "z",
     "A", "B", "C", "D", "E", "F", "G", "H", "I", "J", "K", "L", "M", "N",
     "O", "P", "Q", "R", "S", "T", "U", "V", "W", "X", "Y", "Z",
     SIGMA, PRIMARY, SECONDARY}

\* reserved_chars of validate_category_definition
ReservedChars ==
    {PRIMARY, SECONDARY, BREVE, SIGMA, "!", "[", "]", "(", ")", DOUBLING,
     "-", "→", "/", ">", "#", ":", "{", "}"}

\* any(sep in line for sep in ['/', '>', '→'])
HasSeparator(line) == \E sep \in {"/", ">", "→"} : InStr(sep, line)

\* the variant that cuts every line at its first "# "
process_line_comments_FirstHash(line) ==
    LET HashSpace == {i \in 0..(Len(line) - 2) :
                         line[i + 1] = "#" /\ line[i + 2] = " "}
        First(S) == CHOOSE i \in S : \A j \in S : i <= j
    IN  IF HashSpace # {}
        THEN RStrip(Slice(line, 0, First(HashSpace)))
        ELSE line

\* _process_line_comments
process_line_comments(line) ==
    LET HashSpace == {i \in 0..(Len(line) - 2) :
                         line[i + 1] = "#" /\ line[i + 2] = " "}
        AfterSpace == {i \in HashSpace : i > 0 /\ line[i] \in WHITESPACE}
        First(S) == CHOOSE i \in S : \A j \in S : i <= j
    IN  IF HashSpace # {} /\ HasSeparator(line)
        THEN IF AfterSpace # {}
             THEN RStrip(Slice(line, 0, First(AfterSpace))) ELSE line
        ELSE IF HashSpace # {}
        THEN RStrip(Slice(line, 0, First(HashSpace)))
        ELSE line

\* _validate_colon_usage
validate_colon_usage(line) ==
    {i \in 0..(Len(line) - 1) : line[i + 1] = ":"} \in {{}, {1}}

\* _categorize_line
categorize_line(line) ==
    IF InStr(":", line) /\ ~ HasSeparator(line) THEN "category"
    ELSE IF HasSeparator(line) THEN "replacement"
    ELSE IF \A c \in Range(line) : c \in {"(", ")", "!", ","} \cup Letters
    THEN "structure"
    ELSE "unknown"

\* int(weight_str) for a str of ASCII digits, -1 where int() raises
\* ValueError
RECURSIVE PyInt(_)
PyInt(weight_str) ==
    LET DigitValue == [c \in Digits |->
                          CHOOSE v \in 0..9 :
                              <<"0", "1", "2", "3", "4", "5", "6", "7", "8",
                                "9">>[v + 1] = c]
    IN  IF weight_str = <<>> \/ ~ (Range(weight_str) \subseteq Digits) THEN -1
        ELSE IF Len(weight_str) = 1 THEN DigitValue[weight_str[1]]
        ELSE 10 * PyInt(SubSeq(weight_str, 1, Len(weight_str) - 1))
                + DigitValue[weight_str[Len(weight_str)]]

\* content.split(): the pieces between runs of whitespace
SplitWhitespace(content) == SelectSeq(Split(content, <<" ">>), LAMBDA x : x # <<>>)

\* parse_weighted_category: the (char, weight) items of a category content
RECURSIVE ItemsOfParts(_)
ItemsOfParts(parts) ==
    IF parts = <<>> THEN <<>>
    ELSE LET part == Head(parts)
             brace_start == IndexOf(part, "{")
             brace_end   == IndexOf(part, "}")
             weight      == PyInt(Slice(part, brace_start + 1, brace_end))
         IN  (IF InStr("{", part) /\ InStr("}", part)
              THEN <<W(Slice(part, 0, brace_start),
                       IF weight = -1 THEN 1 ELSE weight)>>
              ELSE Unweighted(part))
                \o ItemsOfParts(Tail(parts))

parse_weighted_category(content) == ItemsOfParts(SplitWhitespace(content))

\* re.findall(r'\{([^}]*)\}', characters) from the 0-based position k on
RECURSIVE BraceMatches(_, _)
BraceMatches(characters, k) ==
    LET Opens == {i \in k..(Len(characters) - 1) : characters[i + 1] = "{"}
        open  == CHOOSE i \in Opens : \A j \in Opens : i <= j
        Closes == {i \in (open + 1)..(Len(characters) - 1) :
                      characters[i + 1] = "}"}
        close == CHOOSE i \in Closes : \A j \in Closes : i <= j
    IN  IF Opens = {} THEN <<>>
        ELSE IF Closes = {} THEN <<>>
        ELSE <<Slice(characters, open + 1, close)>>
                \o BraceMatches(characters, close + 1)

\* the category branch of parse_input_file for a line "X:content": fatal
\* (sys.exit(1)) or the entry categories[category_char] = expanded_chars
CategoryLine(line) ==
    LET category_char == Strip(Slice(line, 0, 1))
        characters    == Strip(SliceFrom(line, 2))
        weighted_items == parse_weighted_category(characters)
        base_chars == Join([k \in 1..Len(weighted_items) |->
                               weighted_items[k].char])
        Count(c) == Cardinality({i \in 1..Len(characters) :
                                    characters[i] = c})
        valid_definition ==
            /\ ~ (Len(category_char) = 1 /\ category_char[1] \in ReservedChars)
            /\ Range(base_chars) \cap ReservedChars = {}
        valid_content ==
            Range(characters) \cap ReservedChars \subseteq {"{", "}", DOUBLING}
        valid_braces ==
            (InStr("{", characters) \/ InStr("}", characters)) =>
                /\ \A m \in Range(BraceMatches(characters, 0)) :
                      m # <<>> /\ Range(m) \subseteq Digits \cup {DOUBLING}
                /\ Count("{") = Count("}")
    IN  [fatal   |-> ~ (valid_definition /\ valid_content /\ valid_braces),
         symbol  |-> category_char,
         members |-> expand_weighted_category(weighted_items)]

\* the variant that ignores what follows -dict in dictionary mode too
ignored_after_dict_Always(started, mode) == started

\* "if dict_started and not dict_mode: continue" of parse_input_file: when
\* dictionary mode was not requested, every line after -dict is ignored
ignored_after_dict(started, mode) == started /\ ~ mode

\* dictionary mode, lines of the input file
InitParse(Files, DictModes) ==
    /\ pc = "parse"
    /\ lines \in Files
    /\ dict_mode \in DictModes
    /\ line_idx = 0
    /\ in_dict_section = FALSE
    /\ dict_started = FALSE
    /\ in_syll_section = FALSE
    /\ structure_rules = <<>>
    /\ dict_words = <<>>
    /\ syll_rules = <<>>
    /\ categories = <<>>
    /\ replacement_rules = <<>>
    /\ warnings = <<>>
    /\ words = <<>>
    /\ pattern = <<>>
    /\ expanded_rules = NotRun
    /\ expanded_environments = NotRun
    /\ syllabify = FALSE
    /\ show_rules = FALSE
    /\ word_idx = 0
    /\ rule_idx = 0
    /\ current_word = <<>>
    /\ processed_words = <<>>
    /\ applied_rules = <<>>
    /\ applied_rules_list = <<>>
    /\ out_words = <<>>
    /\ weighted_rules = <<>>
    /\ random_value = 0
    /\ selected_rule = <<>>
    /\ syllabification_rules =
           [allowed_onsets |-> <<>>, allowed_codas |-> <<>>,
            stress_patterns |-> <<>>]
    /\ ScanIdle

\* one pass of the loop over the lines of parse_input_file, for the line
\* lines[line_idx + 1] as read from the file
ParseLine ==
    /\ pc = "parse"
    /\ line_idx < Len(lines)
    /\ LET raw      == lines[line_idx + 1]
           line_num == line_idx + 1
           line     == Strip(process_line_comments(raw))
           skipped  == \/ Strip(raw) = <<>>
                       \/ StartsWith(Strip(raw), <<"#">>)
                       \/ line = <<>>
           cur == [pc |-> "parse", in_dict |-> in_dict_section,
                   started |-> dict_started, in_syll |-> in_syll_section,
                   rules |-> structure_rules, dict |-> dict_words,
                   syll |-> syll_rules, cats |-> categories,
                   repl |-> replacement_rules, warn |-> warnings]
           entry == CategoryLine(line)
           Normalized == [k \in 1..Len(line) |->
                             IF line[k] \in {">", "→"} THEN "/" ELSE line[k]]
           new ==
               IF skipped THEN cur
               ELSE IF line = <<"-", "d", "i", "c", "t">>
               THEN [cur EXCEPT !.in_dict = TRUE, !.started = TRUE]
               ELSE IF line = <<"-", "e", "n", "d", "-", "d", "i", "c", "t">>
               THEN [cur EXCEPT !.in_dict = FALSE]
               ELSE IF line = <<"-", "s", "y", "l", "l">>
               THEN [cur EXCEPT !.in_syll = TRUE]
               ELSE IF line = <<"-", "e", "n", "d", "-", "s", "y", "l", "l">>
               THEN [cur EXCEPT !.in_syll = FALSE]
               ELSE IF in_syll_section
               THEN [cur EXCEPT !.syll = Append(syll_rules, line)]
               ELSE IF in_dict_section
               THEN IF dict_mode
                    THEN [cur EXCEPT !.dict = dict_words
                                                 \o SplitWhitespace(line)]
                    ELSE cur
               ELSE IF ignored_after_dict(dict_started, dict_mode) THEN cur
               ELSE IF ~ validate_colon_usage(line)
               THEN [cur EXCEPT !.pc = "exit"]
               ELSE IF categorize_line(line) = "category"
               THEN IF entry.fatal THEN [cur EXCEPT !.pc = "exit"]
                    ELSE [cur EXCEPT !.cats = (entry.symbol[1] :> entry.members)
                                                 @@ categories]
               ELSE IF categorize_line(line) = "replacement"
               THEN [cur EXCEPT !.repl = Append(replacement_rules, Normalized)]
               ELSE IF categorize_line(line) = "structure"
               THEN [cur EXCEPT !.rules = structure_rules \o expand_rule(line)]
               ELSE [cur EXCEPT !.warn =
                        Append(warnings, [kind |-> "unknown_line",
                                          line_num |-> line_num])]
       IN  /\ pc' = new.pc
           /\ in_dict_section' = new.in_dict
           /\ dict_started' = new.started
           /\ in_syll_section' = new.in_syll
           /\ structure_rules' = new.rules
           /\ dict_words' = new.dict
           /\ syll_rules' = new.syll
           /\ categories' = new.cats
           /\ replacement_rules' = new.repl
           /\ warnings' = new.warn
    /\ line_idx' = line_idx + 1
    /\ UNCHANGED <<lines, dict_mode, words, syllabify, show_rules, word_idx,
                   rule_idx, current_word, processed_words, applied_rules,
                   applied_rules_list, out_words>>
    /\ UNCHANGED <<expandVars, weighted_rules, random_value, selected_rule,
                   syllabification_rules, scanVars>>

\* parse_input_file returns and main takes its input: the dictionary words
\* in dictionary mode, else the word-structure rules for generate_words.
\* The parser returns each rule as a plain str: an element [rule |-> r] of
\* weighted_rules is such a str, an element [rule |-> r, weight |-> w] is
\* the tuple (r, w) that generate_words expects.
MainInput ==
    /\ pc = "parse"
    /\ line_idx = Len(lines)
    /\ IF dict_mode
       THEN /\ pc' = IF dict_words = <<>> THEN "exit" ELSE "dictionary"
            /\ words' = dict_words
            /\ UNCHANGED weighted_rules
       ELSE /\ pc' = IF structure_rules = <<>> THEN "exit" ELSE "generate"
            /\ weighted_rules' = [k \in 1..Len(structure_rules) |->
                                     [rule |-> structure_rules[k]]]
            /\ UNCHANGED words
    /\ UNCHANGED <<replacement_rules, categories, dict_mode, syllabify,
                   show_rules, word_idx, rule_idx, current_word,
                   processed_words, applied_rules, applied_rules_list,
                   warnings, out_words, random_value, selected_rule>>
    /\ UNCHANGED <<expandVars, lines, line_idx, in_dict_section,
                   dict_started, in_syll_section, structure_rules,
                   dict_words, syll_rules, syllabification_rules, scanVars>>

(***************************************************************************)
(* select_random_rule and generate_words (core/word_generation.py)         *)
(***************************************************************************)
\* the off-by-one variant: the draw is compared with <=
select_random_rule_Inclusive(weighted, value) ==
    LET current_weight[k \in 0..Len(weighted)] ==
            IF k = 0 THEN 0 ELSE current_weight[k - 1] + weighted[k].weight
        hit == {k \in 1..Len(weighted) : value <= current_weight[k]}
    IN  IF hit = {}
        THEN weighted[1].rule
        ELSE weighted[CHOOSE k \in hit : \A j \in hit : k <= j].rule

\* the loop of select_random_rule for the draw value = randint(0, total - 1)
select_random_rule(weighted, value) ==
    LET current_weight[k \in 0..Len(weighted)] ==
            IF k = 0 THEN 0 ELSE current_weight[k - 1] + weighted[k].weight
        hit == {k \in 1..Len(weighted) : value < current_weight[k]}
    IN  IF hit = {}
        THEN weighted[1].rule
        ELSE weighted[CHOOSE k \in hit : \A j \in hit : k <= j].rule

\* one pass of the loop of generate_words: "for rule, weight in
\* weighted_rules" and the sum of the weights raise for a plain str, and
\* randint(0, -1) raises for a total weight of 0
SelectRandomRule ==
    /\ pc = "generate"
    /\ IF \E k \in 1..Len(weighted_rules) :
              "weight" \notin DOMAIN weighted_rules[k]
       THEN /\ pc' = "crash"
            /\ UNCHANGED <<random_value, selected_rule>>
       ELSE LET total[k \in 0..Len(weighted_rules)] ==
                    IF k = 0 THEN 0
                    ELSE total[k - 1] + weighted_rules[k].weight
                total_weight == total[Len(weighted_rules)]
            IN  IF total_weight = 0
                THEN /\ pc' = "crash"
                     /\ UNCHANGED <<random_value, selected_rule>>
                ELSE \E value \in 0..(total_weight - 1) :
                        /\ random_value' = value
                        /\ selected_rule' =
                               select_random_rule(weighted_rules, value)
                        /\ pc' = "selected"
    /\ UNCHANGED <<words, replacement_rules, categories, dict_mode,
                   syllabify, show_rules, word_idx, rule_idx, current_word,
                   processed_words, applied_rules, applied_rules_list,
                   warnings, out_words, weighted_rules>>
    /\ UNCHANGED <<expandVars, lines, line_idx, in_dict_section,
                   dict_started, in_syll_section, structure_rules,
                   dict_words, syll_rules, syllabification_rules, scanVars>>

NextParse == ParseLine \/ MainInput \/ SelectRandomRule

MaxContentLen == 4

\* category lines "V: content" with weight braces
\* (test_reserved_character_validation: V: a{e}iou)
WeightLines ==
    LET V_colon == <<"V", ":", " ">>
    IN  {V_colon \o content :
            content \in WordsUpTo({"a", "e", "{", "}", "0", "2"},
                                  MaxContentLen)}
        \cup {V_colon \o <<"a", "{", "e", "}", "i", "o", "u">>,
              V_colon \o <<"a", "{", "a", "b", "c", "}">>,
              V_colon \o <<"a", "{", "0", "}", " ", "e", " ", "i">>,
              V_colon \o <<"a", "{", "3", "}", " ", "e", "{", "2">>}

\* word-structure lines with and without a trailing weight
\* (test_weighted_rules_with_flexible_syntax)
StructureLines ==
    LET C == "C"
        V == "V"
    IN  {rule \o suffix :
            rule \in {<<C, V>>, <<C, V, "(", C, ")">>, <<"(", C, ")", V>>,
                      <<C, V, "(", C, ",", V, ")">>},
            suffix \in {<<>>, <<"{", "1", "}">>, <<"{", "5", "}">>,
                        <<" ", "{", "5", "}">>}}

\* a replacement rule, whitespace and a comment
\* (test_word_boundary_vs_comments: a//_#      # delete word-final a)
CommentLines ==
    LET a == <<"a">>
        e == <<"e">>
        space == <<" ">>
        R == {RuleLine(input, output, environment) :
                 input \in {a, <<>>}, output \in {e, <<>>},
                 environment \in {<<"_">>, <<"_", "#">>, <<"#", "_">>,
                                  <<"#", "_", "#">>, <<"a", "_", "#">>}}
             \cup {<<"a", "/", "e">>, <<"a", "/", "/">>}
    IN  {rule \o whitespace \o <<"#", " ">> \o text :
            rule \in R,
            whitespace \in {space,
                            space \o space \o space \o space \o space
                                \o space},
            text \in {<<"c">>, <<"#", " ", "c">>, <<"a", "/", "b">>,
                      <<"d", "e", "l", "e", "t", "e", " ", "w", "o", "r",
                        "d", "-", "f", "i", "n", "a", "l", " ", "a">>}}

\* input files of one line, read for generation
SpecParse ==
    InitParse(OneWord(WeightLines \cup StructureLines \cup CommentLines),
              {FALSE})
        /\ [][NextParse]_vars

MaxSectionLines == 1

\* input files with a dictionary section: up to MaxSectionLines lines, the
\* section -dict ... -end-dict with one line inside, and up to
\* MaxSectionLines lines after it (test_doubling_symbol has its rules
\* after -end-dict); and files of the same lines without the section
SpecSection ==
    InitParse(LET Items == {<<"V", ":", " ", "a", "e">>,
                            <<"a", "/", "e", "/", "_">>,
                            <<"C", "V">>, <<"a", ">", "e">>}
                  Inside == Items \cup {<<"b", "a", " ", "n", "a">>}
                  Section(inside) ==
                      <<(<<"-", "d", "i", "c", "t">>), inside,
                        (<<"-", "e", "n", "d", "-", "d", "i", "c", "t">>)>>
              IN  {before \o Section(inside) \o after :
                      before \in ListsUpTo(Items, MaxSectionLines),
                      inside \in Inside,
                      after \in ListsUpTo(Items, MaxSectionLines)}
                  \cup {before \o after :
                           before \in ListsUpTo(Items, MaxSectionLines),
                           after \in ListsUpTo(Items, MaxSectionLines)},
              BOOLEAN)
        /\ [][NextParse]_vars

MaxReservedLen == 2

\* input files of a line "V: content" with up to MaxReservedLen characters
\* out of a and the reserved characters, or a line "X: a" named by a
\* reserved character (test_category_validation: σ: abc), and the
\* word-structure rule CV
SpecReserved ==
    InitParse({<<(<<"V", ":", " ">> \o content), (<<"C", "V">>)>> :
                  content \in WordsUpTo(ReservedChars \cup {"a"},
                                        MaxReservedLen)}
              \cup {<<(<<name, ":", " ", "a">>), (<<"C", "V">>)>> :
                       name \in ReservedChars},
              {FALSE})
        /\ [][NextParse]_vars

MaxLineLen == 5

\* one rule line of at most MaxLineLen characters out of a, / and _,
\* applied to the word a or aa
SpecShapes ==
    InitEngine(OneWord({<<"a">>, <<"a", "a">>}),
               OneRuleOrNone(WordsUpTo({"a", "/", "_"}, MaxLineLen)),
               {<<>>}, {FALSE}, {FALSE}, {FALSE})
        /\ [][Next]_vars

MaxWeight == 3

MaxTemplates == 3

\* generate_words with 1..MaxTemplates templates of weights 1..MaxWeight
\* (test_weighted_selection_bias)
InitSampler ==
    /\ pc = "generate"
    /\ weighted_rules \in
           ListsFrom1([rule : {<<"C", "V">>, <<"C", "V", "C">>},
                       weight : 1..MaxWeight], MaxTemplates)
    /\ random_value = 0
    /\ selected_rule = <<>>
    /\ syllabification_rules =
           [allowed_onsets |-> <<>>, allowed_codas |-> <<>>,
            stress_patterns |-> <<>>]
    /\ ScanIdle
    /\ lines = <<>>
    /\ line_idx = 0
    /\ in_dict_section = FALSE
    /\ dict_started = FALSE
    /\ in_syll_section = FALSE
    /\ structure_rules = <<>>
    /\ dict_words = <<>>
    /\ syll_rules = <<>>
    /\ categories = <<>>
    /\ replacement_rules = <<>>
    /\ warnings = <<>>
    /\ words = <<>>
    /\ pattern = <<>>
    /\ expanded_rules = NotRun
    /\ expanded_environments = NotRun
    /\ dict_mode = FALSE
    /\ syllabify = FALSE
    /\ show_rules = FALSE
    /\ word_idx = 0
    /\ rule_idx = 0
    /\ current_word = <<>>
    /\ processed_words = <<>>
    /\ applied_rules = <<>>
    /\ applied_rules_list = <<>>
    /\ out_words = <<>>

SpecSampler == InitSampler /\ [][SelectRandomRule]_vars

\* one rule on one word out of k, a and s: a replacement or a deletion next
\* to a word boundary (test_word_boundaries), an insertion, or a
\* replacement whose output holds its input
ScanRules ==
    LET a == <<"a">>
        k == <<"k">>
        hash == <<"#">>
        under == <<"_">>
    IN  {RuleLine(input, output, environment) :
            input \in {k, k \o k}, output \in {<<"g">>, <<>>},
            environment \in {hash \o under, under \o hash,
                             hash \o a \o under, under \o a \o hash,
                             hash \o under \o hash, a \o under \o hash,
                             hash \o a \o under \o <<"s">> \o hash}}
        \cup {RuleLine(<<>>, output, environment) :
                 output \in {<<"x">>, <<"e">>},
                 environment \in {under, hash \o under \o <<"s">>,
                                  under \o hash, a \o under,
                                  hash \o under, under \o a \o hash}}
        \cup {RuleLine(input, output, environment) :
                 input \in {a, a \o a},
                 output \in {a \o a, <<"b">>, a \o a \o a},
                 environment \in {under, k \o under}}

SpecScan ==
    InitEngine(OneWord(WordsUpTo({"k", "a", "s"}, MaxWordLen)),
               OneRuleOrNone(ScanRules), {<<>>}, {FALSE}, {FALSE}, {FALSE})
        /\ [][Next]_vars

\* lists of up to MaxRules rules, well-formed, without separator or
\* with a bracket class that is never closed, on lists of up to MaxWords
\* words
SpecMalformed ==
    InitEngine(ListsFrom1({<<"a">>, <<"a", "k">>, <<"k", "a">>}, MaxWords),
               ListsUpTo({R_a_o, R_no_separator, R_open_bracket,
                          <<"a", "/", "e", "/", "[", "k", "_">>}, MaxRules),
               {<<>>}, {FALSE}, {FALSE}, {TRUE})
        /\ [][Next]_vars

\* one deletion or replacement of a or k whose environment holds a
\* character that the rule itself deletes or writes, on one word of up to
\* MaxWordLen characters out of a and k
SpecOriginal ==
    InitEngine(OneWord(WordsUpTo({"a", "k"}, MaxWordLen)),
               OneRuleOrNone({RuleLine(input, output, environment) :
                                 input \in {<<"a">>, <<"k">>},
                                 output \in {<<>>, <<"b">>, <<"a", "a">>},
                                 environment \in {<<"a", "_">>, <<"_", "a">>,
                                                  <<"a", "_", "a">>}}),
               {<<>>}, {FALSE}, {FALSE}, {FALSE})
        /\ [][Next]_vars

MaxSyllables == 3

\* syllabification mode: one syllable rule, a deletion or a stress
\* movement at the first or the last syllable, on one word of
\* 1..MaxSyllables syllables with and without stress marks
\* (test_syllable_deletion: σ//#_)
SpecSyllables ==
    InitEngine(OneWord({join_syllables(syllables) :
                           syllables \in
                               ListsFrom1({<<"t", "a">>, <<PRIMARY, "t", "a">>,
                                           <<SECONDARY, "k", "a">>,
                                           <<"k", "a">>}, MaxSyllables)}),
               OneRuleOrNone(
                   {RuleLine(qualifier \o <<SIGMA>>, <<>>, environment) :
                       qualifier \in {<<>>, <<PRIMARY>>, <<SECONDARY>>,
                                      <<BREVE>>},
                       environment \in {<<"#", "_">>, <<"_", "#">>}}
                   \cup {RuleLine(<<SIGMA>>, mark \o <<SIGMA>>, environment) :
                            mark \in {<<PRIMARY>>, <<SECONDARY>>},
                            environment \in {<<"#", "_">>, <<"_", "#">>}}),
               {<<>>}, {FALSE}, {TRUE}, {FALSE})
        /\ [][Next]_vars

(***************************************************************************)
(* find_syllable_boundaries, apply_syllabification, apply_stress_pattern   *)
(* (core/syllabification.py) and the last pass of main                     *)
(***************************************************************************)
\* (below the variant that breaks before every character but the first)
\* the positions of the breaks, in the order of the scan; sorting the
\* onsets and codas by length changes the first match, not whether there is
\* one. A pattern without secondary stress holds secondary = 0: None and 0
\* both mark no syllable and fit every word.
find_syllable_boundaries_Everywhere(word, rules) == 1..(Len(word) - 1)

find_syllable_boundaries(word, rules) ==
    LET left_part(i) == Slice(word, 0, i)
        right_part(i) == SliceFrom(word, i)
        endswith(s, coda) ==
            Len(coda) <= Len(s)
                /\ SubSeq(s, Len(s) - Len(coda) + 1, Len(s)) = coda
        onset_found(i) ==
            \E k \in 1..Len(rules.allowed_onsets) :
                StartsWith(right_part(i), rules.allowed_onsets[k])
        coda_found(i) ==
            \E k \in 1..Len(rules.allowed_codas) :
                endswith(left_part(i), rules.allowed_codas[k])
        valid_break(i) ==
            \/ coda_found(i) /\ (onset_found(i) \/ Len(right_part(i)) > 0)
            \/ onset_found(i)
    IN  IF Len(word) <= 1 THEN {}
        ELSE {i \in 1..(Len(word) - 1) : valid_break(i)}

\* the variant that writes the break over the character behind it
apply_syllabification_Overwrite(word, rules) ==
    LET boundaries == find_syllable_boundaries(word, rules)
        result[k \in 0..Len(word)] ==
            IF k = 0 THEN <<>>
            ELSE result[k - 1]
                    \o (IF (k - 1) \in boundaries THEN <<DOT>>
                        ELSE <<word[k]>>)
    IN  IF rules.allowed_onsets = <<>> /\ rules.allowed_codas = <<>>
        THEN word
        ELSE result[Len(word)]

\* the '.' is inserted before the character at every boundary
apply_syllabification(word, rules) ==
    LET boundaries == find_syllable_boundaries(word, rules)
        result[k \in 0..Len(word)] ==
            IF k = 0 THEN <<>>
            ELSE result[k - 1]
                    \o (IF (k - 1) \in boundaries THEN <<DOT>> ELSE <<>>)
                    \o <<word[k]>>
    IN  IF rules.allowed_onsets = <<>> /\ rules.allowed_codas = <<>>
        THEN word
        ELSE result[Len(word)]

\* every word that random.choice(applicable_patterns) can lead to
apply_stress_pattern(syllabified_word, rules) ==
    LET syllables == Split(syllabified_word, <<DOT>>)
        num_syllables == Len(syllables)
        applicable_patterns ==
            {k \in 1..Len(rules.stress_patterns) :
                /\ rules.stress_patterns[k].primary <= num_syllables
                /\ rules.stress_patterns[k].secondary <= num_syllables}
        stressed(chosen_pattern) ==
            [j \in 1..num_syllables |->
                IF j = chosen_pattern.primary
                THEN <<PRIMARY>> \o syllables[j]
                ELSE IF j = chosen_pattern.secondary
                THEN <<SECONDARY>> \o syllables[j]
                ELSE syllables[j]]
    IN  IF applicable_patterns = {} THEN {syllabified_word}
        ELSE {join_syllables(stressed(rules.stress_patterns[k])) :
                 k \in applicable_patterns}

\* main: "if args.syllabify and syllabification_rules": syllabify_word for
\* every word, then the words are written
SyllabifyWords ==
    /\ pc = "done"
    /\ syllabify
    /\ \E syllabified_words \in
              [1..Len(out_words) ->
                  UNION {apply_stress_pattern(
                             apply_syllabification(out_words[k],
                                                   syllabification_rules),
                             syllabification_rules) :
                         k \in 1..Len(out_words)}] :
          /\ \A k \in 1..Len(out_words) :
                syllabified_words[k] \in
                    apply_stress_pattern(
                        apply_syllabification(out_words[k],
                                              syllabification_rules),
                        syllabification_rules)
          /\ out_words' = syllabified_words
    /\ pc' = "written"
    /\ UNCHANGED <<words, replacement_rules, categories, dict_mode, syllabify,
                   show_rules, word_idx, rule_idx, current_word,
                   processed_words, applied_rules, applied_rules_list,
                   warnings>>
    /\ UNCHANGED expandVars
    /\ UNCHANGED frontVars

MaxSyllableWordLen == 3

MaxOnsets == 2

MaxPatterns == 2

\* -s without replacement rules: one word out of t, a and k, the onsets t
\* and tk, the coda k, at most MaxPatterns stress patterns
InitSyllabify ==
    /\ pc = "main"
    /\ words \in OneWord(WordsUpTo({"t", "a", "k"}, MaxSyllableWordLen))
    /\ syllabification_rules \in
           [allowed_onsets : ListsUpTo({<<"t">>, <<"t", "k">>}, MaxOnsets),
            allowed_codas : {<<>>, <<(<<"k">>)>>},
            stress_patterns :
                ListsUpTo({[primary |-> 1, secondary |-> 0],
                           [primary |-> 2, secondary |-> 1],
                           [primary |-> 3, secondary |-> 0]}, MaxPatterns)]
    /\ syllabify = TRUE
    /\ replacement_rules = <<>>
    /\ categories = <<>>
    /\ dict_mode = FALSE
    /\ show_rules = FALSE
    /\ pattern = <<>>
    /\ expanded_rules = NotRun
    /\ expanded_environments = NotRun
    /\ word_idx = 0
    /\ rule_idx = 0
    /\ current_word = <<>>
    /\ processed_words = <<>>
    /\ applied_rules = <<>>
    /\ applied_rules_list = <<>>
    /\ warnings = <<>>
    /\ out_words = <<>>
    /\ lines = <<>>
    /\ line_idx = 0
    /\ in_dict_section = FALSE
    /\ dict_started = FALSE
    /\ in_syll_section = FALSE
    /\ structure_rules = <<>>
    /\ dict_words = <<>>
    /\ syll_rules = <<>>
    /\ weighted_rules = <<>>
    /\ random_value = 0
    /\ selected_rule = <<>>
    /\ ScanIdle

SpecSyllabify == InitSyllabify /\ [][SkipRules \/ SyllabifyWords]_vars

(***************************************************************************)
(* The scans of the core, one loop iteration at a time.                    *)
(***************************************************************************)
scanInputs == <<expandVars, engineVars, lines, line_idx, in_dict_section,
                dict_started, in_syll_section, structure_rules, dict_words,
                syll_rules, weighted_rules, random_value, selected_rule,
                syllabification_rules>>

\* one pass of the outer while loop of expand_rule and of
\* expand_environment_rule up to the inner loop
GroupStep ==
    /\ pc = "scan"
    /\ scan \in {"expand_rule", "expand_environment_rule"}
    /\ scan_i < Len(pattern)
    /\ IF pattern[scan_i + 1] = "("
       THEN /\ scan_depth' = 1
            /\ scan_start' = scan_i
            /\ scan_i' = scan_i + 1
            /\ pc' = "find_close"
       ELSE /\ scan_i' = scan_i + 1
            /\ UNCHANGED <<pc, scan_depth, scan_start>>
    /\ UNCHANGED <<scan, scan_result, scan_matches>>
    /\ UNCHANGED scanInputs

\* the variant that goes back to the unmatched parenthesis itself
CloseStep_BackToStart ==
    /\ pc = "find_close"
    /\ IF scan_i < Len(pattern) /\ scan_depth > 0
       THEN /\ scan_depth' =
                   IF pattern[scan_i + 1] = "(" THEN scan_depth + 1
                   ELSE IF pattern[scan_i + 1] = ")" THEN scan_depth - 1
                   ELSE scan_depth
            /\ scan_i' = scan_i + 1
            /\ UNCHANGED <<pc, scan_start, scan_result>>
       ELSE IF scan_depth = 0
       THEN /\ scan_result' =
                   Append(scan_result,
                          [start |-> scan_start, end |-> scan_i,
                           content |-> Slice(pattern, scan_start + 1,
                                             scan_i - 1)])
            /\ pc' = "scan"
            /\ UNCHANGED <<scan_i, scan_depth, scan_start>>
       ELSE /\ scan_i' = scan_start
            /\ pc' = "scan"
            /\ UNCHANGED <<scan_depth, scan_start, scan_result>>
    /\ UNCHANGED <<scan, scan_matches>>
    /\ UNCHANGED scanInputs

\* one pass of the inner while loop that looks for the matching
\* parenthesis, or its end: the group is complete (depth 0) or the
\* parenthesis is unmatched and the scan goes on at start + 1
CloseStep ==
    /\ pc = "find_close"
    /\ IF scan_i < Len(pattern) /\ scan_depth > 0
       THEN /\ scan_depth' =
                   IF pattern[scan_i + 1] = "(" THEN scan_depth + 1
                   ELSE IF pattern[scan_i + 1] = ")" THEN scan_depth - 1
                   ELSE scan_depth
            /\ scan_i' = scan_i + 1
            /\ UNCHANGED <<pc, scan_start, scan_result>>
       ELSE IF scan_depth = 0
       THEN /\ scan_result' =
                   Append(scan_result,
                          [start |-> scan_start, end |-> scan_i,
                           content |-> Slice(pattern, scan_start + 1,
                                             scan_i - 1)])
            /\ pc' = "scan"
            /\ UNCHANGED <<scan_i, scan_depth, scan_start>>
       ELSE /\ scan_i' = scan_start + 1
            /\ pc' = "scan"
            /\ UNCHANGED <<scan_depth, scan_start, scan_result>>
    /\ UNCHANGED <<scan, scan_matches>>
    /\ UNCHANGED scanInputs

\* what the pass of a scan at position i finds in the word, which no scan
\* changes: match_environment at i of '#' + word + '#' for an insertion;
\* the match of the input and of the environment at i for a deletion and
\* a replacement, with the text to write; valid_break at i for
\* find_syllable_boundaries, where rule is the syllabification rules
MatchAt(kind, word, i, rule, cats) ==
    LET input_part == rule.input
        fits == i + Len(input_part) <= Len(word)
        potential_match == Slice(word, i, i + Len(input_part))
        input_match ==
            fits /\ match_input_at_position(potential_match, input_part,
                                            cats)
        segment_match ==
            IF ~ input_match THEN "False"
            ELSE IF rule.environment = <<"_">> THEN "True"
            ELSE match_environment_for_segment(word, i, Len(input_part),
                                               rule.environment, cats)
        env_match ==
            IF ~ input_match THEN "False"
            ELSE IF rule.environment = <<"_">> THEN "True"
            ELSE IF Len(input_part) = 1
            THEN match_environment(word, i, rule.environment, cats)
            ELSE segment_match
    IN  IF kind = "apply_insertion_rule"
        THEN [env_match |-> match_environment(<<"#">> \o word \o <<"#">>, i,
                                              rule.environment, cats),
              replacement |-> None]
        ELSE IF kind = "apply_deletion_rule"
        THEN [env_match |-> segment_match, replacement |-> None]
        ELSE IF kind = "apply_standard_replacement"
        THEN [env_match |-> env_match,
              replacement |->
                  IF env_match = "True"
                  THEN get_replacement_output(potential_match, input_part,
                                              rule.output, cats)
                  ELSE None]
        ELSE [env_match |->
                  IF i \in find_syllable_boundaries(word, rule)
                  THEN "True" ELSE "False",
              replacement |-> None]

\* one pass of "for i in range(len(bounded_word))" of apply_insertion_rule
InsertionStep ==
    /\ pc = "scan"
    /\ scan = "apply_insertion_rule"
    /\ scan_i < Len(current_word) + 2
    /\ LET bounded_word == <<"#">> \o current_word \o <<"#">>
           output_part == parse_replacement_rule(replacement_rules[1]).output
           m == scan_matches[scan_i + 1].env_match
           ins == IF m = "True" THEN Append(scan_result, output_part)
                  ELSE scan_result
       IN  IF m = "ValueError"
           THEN /\ pc' = "raised"
                /\ UNCHANGED <<scan_i, scan_result>>
           ELSE /\ scan_result' =
                       IF bounded_word[scan_i + 1] # "#"
                       THEN Append(ins, <<bounded_word[scan_i + 1]>>)
                       ELSE ins
                /\ scan_i' = scan_i + 1
                /\ UNCHANGED pc
    /\ UNCHANGED <<scan, scan_depth, scan_start, scan_matches>>
    /\ UNCHANGED scanInputs

\* one pass of the while loop of apply_deletion_rule
DeletionStep ==
    /\ pc = "scan"
    /\ scan = "apply_deletion_rule"
    /\ scan_i < Len(current_word)
    /\ LET input_part == parse_replacement_rule(replacement_rules[1]).input
           env_match == scan_matches[scan_i + 1].env_match
       IN  IF env_match = "ValueError"
           THEN /\ pc' = "raised"
                /\ UNCHANGED <<scan_i, scan_result>>
           ELSE IF env_match = "True"
           THEN /\ scan_i' = scan_i + Len(input_part)
                /\ UNCHANGED <<pc, scan_result>>
           ELSE /\ scan_result' =
                       Append(scan_result, <<current_word[scan_i + 1]>>)
                /\ scan_i' = scan_i + 1
                /\ UNCHANGED pc
    /\ UNCHANGED <<scan, scan_depth, scan_start, scan_matches>>
    /\ UNCHANGED scanInputs

\* one pass of the while loop of apply_standard_replacement
ReplacementStep ==
    /\ pc = "scan"
    /\ scan = "apply_standard_replacement"
    /\ scan_i < Len(current_word)
    /\ LET input_part == parse_replacement_rule(replacement_rules[1]).input
           env_match == scan_matches[scan_i + 1].env_match
           replacement == scan_matches[scan_i + 1].replacement
       IN  IF env_match = "ValueError"
           THEN /\ pc' = "raised"
                /\ UNCHANGED <<scan_i, scan_result>>
           ELSE IF replacement # None
           THEN /\ scan_result' = Append(scan_result, replacement)
                /\ scan_i' = scan_i + Len(input_part)
                /\ UNCHANGED pc
           ELSE /\ scan_result' =
                       Append(scan_result, <<current_word[scan_i + 1]>>)
                /\ scan_i' = scan_i + 1
                /\ UNCHANGED pc
    /\ UNCHANGED <<scan, scan_depth, scan_start, scan_matches>>
    /\ UNCHANGED scanInputs

\* one pass of the while loop of find_syllable_boundaries: the position is
\* a boundary or not, and i += 1 in both branches
BoundaryStep ==
    /\ pc = "scan"
    /\ scan = "find_syllable_boundaries"
    /\ scan_i < Len(current_word)
    /\ scan_result' =
           IF scan_matches[scan_i + 1].env_match = "True"
           THEN Append(scan_result, scan_i) ELSE scan_result
    /\ scan_i' = scan_i + 1
    /\ UNCHANGED <<pc, scan, scan_depth, scan_start, scan_matches>>
    /\ UNCHANGED scanInputs

\* the loop condition is false: the scan returns
ScanEnd ==
    /\ pc = "scan"
    /\ scan_i >= (IF scan \in {"expand_rule", "expand_environment_rule"}
                  THEN Len(pattern)
                  ELSE IF scan = "apply_insertion_rule"
                  THEN Len(current_word) + 2
                  ELSE Len(current_word))
    /\ pc' = "scanned"
    /\ UNCHANGED scanVars
    /\ UNCHANGED scanInputs

\* a scan is called with its input: a pattern of up to MaxPatLen characters
\* out of (, ) and a for the scan of either expander; a word of up to
\* MaxWordLen characters out of a and k for an insertion, a deletion or a
\* replacement; or a word of up to MaxSyllableWordLen characters with
\* onsets and codas for find_syllable_boundaries
StartScan ==
    /\ pc = "main"
    /\ scan = "none"
    /\ pc' = "scan"
    /\ scan' \in {"expand_rule", "expand_environment_rule",
                  "apply_insertion_rule", "apply_deletion_rule",
                  "apply_standard_replacement", "find_syllable_boundaries"}
    /\ pattern' \in IF scan' \in {"expand_rule", "expand_environment_rule"}
                    THEN WordsUpTo({"(", ")", "a"}, MaxPatLen) ELSE {<<>>}
    /\ replacement_rules' \in
           IF scan' = "apply_insertion_rule"
           THEN OneWord({RuleLine(<<>>, <<"x">>, environment) :
                            environment \in {<<"_">>, <<"#", "_">>,
                                             <<"_", "a">>, <<"_", "[">>}})
           ELSE IF scan' = "apply_deletion_rule"
           THEN OneWord({RuleLine(input, <<>>, environment) :
                            input \in {<<"a">>, <<"a", "k">>},
                            environment \in {<<"_">>, <<"_", "#">>,
                                             <<"k", "_">>, <<"_", "[">>}})
           ELSE IF scan' = "apply_standard_replacement"
           THEN OneWord({RuleLine(input, output, environment) :
                            input \in {<<"a">>, <<"a", "k">>},
                            output \in {<<"b">>, <<"a", "a">>},
                            environment \in {<<"_">>, <<"k", "_">>,
                                             <<"_", "[">>}})
           ELSE {<<>>}
    /\ current_word' \in
           IF scan' \in {"apply_insertion_rule", "apply_deletion_rule",
                         "apply_standard_replacement"}
           THEN WordsUpTo({"a", "k"}, MaxWordLen)
           ELSE IF scan' = "find_syllable_boundaries"
           THEN WordsUpTo({"t", "a", "k"}, MaxSyllableWordLen)
           ELSE {<<>>}
    /\ syllabification_rules' \in
           IF scan' = "find_syllable_boundaries"
           THEN [allowed_onsets : ListsUpTo({<<"t">>, <<"t", "k">>},
                                            MaxOnsets),
                 allowed_codas : {<<>>, <<(<<"k">>)>>},
                 stress_patterns : {<<>>}]
           ELSE {syllabification_rules}
    /\ scan_i' = IF scan' = "find_syllable_boundaries" THEN 1 ELSE 0
    /\ scan_matches' =
           IF scan' \in {"expand_rule", "expand_environment_rule"}
           THEN <<>>
           ELSE [k \in 1..(Len(current_word') + 2) |->
                    MatchAt(scan', current_word', k - 1,
                            IF scan' = "find_syllable_boundaries"
                            THEN syllabification_rules'
                            ELSE parse_replacement_rule(
                                     replacement_rules'[1]),
                            categories)]
    /\ UNCHANGED <<scan_depth, scan_start, scan_result>>
    /\ UNCHANGED <<expanded_rules, expanded_environments, words, categories,
                   dict_mode, syllabify, show_rules, word_idx, rule_idx,
                   processed_words, applied_rules, applied_rules_list,
                   warnings, out_words, lines, line_idx, in_dict_section,
                   dict_started, in_syll_section, structure_rules,
                   dict_words, syll_rules, weighted_rules, random_value,
                   selected_rule>>

NextScan ==
    StartScan \/ GroupStep \/ CloseStep \/ InsertionStep \/ DeletionStep
        \/ ReplacementStep \/ BoundaryStep \/ ScanEnd

\* main before a scan is called
InitScan ==
    /\ pc = "main"
    /\ pattern = <<>>
    /\ expanded_rules = NotRun
    /\ expanded_environments = NotRun
    /\ words = <<>>
    /\ replacement_rules = <<>>
    /\ categories = <<>>
    /\ dict_mode = FALSE
    /\ syllabify = FALSE
    /\ show_rules = FALSE
    /\ word_idx = 0
    /\ rule_idx = 0
    /\ current_word = <<>>
    /\ processed_words = <<>>
    /\ applied_rules = <<>>
    /\ applied_rules_list = <<>>
    /\ warnings = <<>>
    /\ out_words = <<>>
    /\ FrontIdle

\* a scan is a loop of a sequential program: while a pass is enabled, one
\* is taken
SpecScanSteps == InitScan /\ [][NextScan]_vars /\ WF_vars(NextScan)

(***************************************************************************)
(* What one rule does to one word, said without the scan of the engine.    *)
(***************************************************************************)
\* the members of a category without their repetitions, in the order of
\* their first occurrence
FirstOccurrences(l) ==
    LET keep == {k \in 1..Len(l) : \A j \in 1..(k - 1) : l[j] # l[k]}
    IN  [i \in 1..Cardinality(keep) |->
            l[CHOOSE k \in keep : Cardinality({j \in keep : j < k}) = i - 1]]

\* the only rule of the run, parsed
TheRule == parse_replacement_rule(replacement_rules[1])

\* a run of one rule that has come to its end
OneRuleDone == pc = "done" /\ Len(replacement_rules) = 1 /\ Len(words) = 1

\* the rule is X/Y/_ for two categories with the same number of different
\* members
IsCategoryRule ==
    /\ TheRule.valid
    /\ Len(TheRule.input) = 1 /\ TheRule.input[1] \in DOMAIN categories
    /\ Len(TheRule.output) = 1 /\ TheRule.output[1] \in DOMAIN categories
    /\ TheRule.environment = <<"_">>
    /\ UniqueCount(TheRule.input[1]) = UniqueCount(TheRule.output[1])

\* each character of the word that is a member of X replaced by the member
\* of Y at the same index, the others kept
Mapped(word, X, Y) ==
    LET from == FirstOccurrences(categories[X])
        to   == FirstOccurrences(categories[Y])
    IN  Join([k \in 1..Len(word) |->
                 IF \E i \in 1..Len(from) : from[i] = <<word[k]>>
                 THEN to[CHOOSE i \in 1..Len(from) : from[i] = <<word[k]>>]
                 ELSE <<word[k]>>])

SingleCharMembers(Y) == \A m \in Range(categories[Y]) : Len(m) = 1

W_papa == <<"p", "a", "p", "a">>

\* C4 as claimed: a rule X/Y/_ between categories with the same number of
\* unique members replaces each member of X by the member of Y at the same
\* index of the de-duplicated lists, keeps every other character and keeps
\* the length of the word; weights play no part, papa becomes baba.
C4_MappedSameLength ==
    (OneRuleDone /\ IsCategoryRule) =>
        /\ out_words = <<Mapped(words[1], TheRule.input[1],
                                TheRule.output[1])>>
        /\ Len(out_words[1]) = Len(words[1])
        /\ ( /\ TheRule.input = <<"P">> /\ TheRule.output = <<"B">>
             /\ categories \in {MismatchTable, WeightedTable}
             /\ words = <<W_papa>> )
              => out_words = <<(<<"b", "a", "b", "a">>)>>

\* C4 as amended: the same mapping, character by character; the length of
\* the word is kept when every member of Y is one character long.
C4_MappedByIndex ==
    (OneRuleDone /\ IsCategoryRule) =>
        /\ out_words = <<Mapped(words[1], TheRule.input[1],
                                TheRule.output[1])>>
        /\ SingleCharMembers(TheRule.output[1])
              => Len(out_words[1]) = Len(words[1])
        /\ ( /\ TheRule.input = <<"P">> /\ TheRule.output = <<"B">>
             /\ categories \in {MismatchTable, WeightedTable}
             /\ words = <<W_papa>> )
              => out_words = <<(<<"b", "a", "b", "a">>)>>
        /\ ( /\ TheRule.input = <<"P">> /\ TheRule.output = <<"B">>
             /\ categories = TokenTable
             /\ words = <<W_papa>> )
              => out_words = <<(<<"b", "b", "a", "b", "b", "a">>)>>

C4_Witness ==
    /\ pc = "done"
    /\ categories = WeightedTable
    /\ replacement_rules = <<RuleLine(<<"P">>, <<"B">>, <<"_">>)>>
    /\ words = <<(<<"t", "a", "p", "g">>)>>
    /\ out_words = <<(<<"d", "a", "b", "g">>)>>

\* one sign of a pattern against one character of the word
SignMatches(sign, char) ==
    IF sign \in DOMAIN categories THEN <<char>> \in Range(categories[sign])
    ELSE char = sign

\* X occurs in the word from the 0-based position i on
OccursAt(word, i, X) ==
    /\ i >= 0
    /\ i + Len(X) <= Len(word)
    /\ \A k \in 1..Len(X) : SignMatches(X[k], word[i + k])

\* the rule is X//_# with an input of one character or more
IsFinalDeletion ==
    /\ TheRule.valid
    /\ TheRule.input # <<>>
    /\ TheRule.output = <<>>
    /\ TheRule.environment = <<"_", "#">>

\* C6: a rule X//_# removes the occurrence of X that ends at the last
\* character of the word, if there is one, and keeps every other character
\* in order: k//_# turns tak into ta and leaves kat, a//_# turns banana
\* into banan, us//_# turns bonus into bon.
C6_FinalOccurrenceDeleted ==
    (OneRuleDone /\ IsFinalDeletion) =>
        LET X == TheRule.input
            word == words[1]
            n == Len(word) - Len(X)
        IN  /\ out_words = <<IF OccursAt(word, n, X)
                             THEN SubSeq(word, 1, n) ELSE word>>
            /\ (X = <<"k">> /\ word = <<"t", "a", "k">>)
                  => out_words = <<(<<"t", "a">>)>>
            /\ (X = <<"k">> /\ word = <<"k", "a", "t">>)
                  => out_words = <<(<<"k", "a", "t">>)>>
            /\ (X = <<"a">> /\ word = <<"b", "a", "n", "a", "n", "a">>)
                  => out_words = <<(<<"b", "a", "n", "a", "n">>)>>
            /\ (X = <<"u", "s">> /\ word = <<"b", "o", "n", "u", "s">>)
                  => out_words = <<(<<"b", "o", "n">>)>>

C6_Witness ==
    /\ pc = "done"
    /\ replacement_rules = <<RuleLine(<<"u", "s">>, <<>>, <<"_", "#">>)>>
    /\ words = <<(<<"b", "o", "n", "u", "s">>)>>
    /\ out_words = <<(<<"b", "o", "n">>)>>


\* an environment L_R, with L and R each empty, # or one sign, holds for
\* the n characters of the word from the 0-based position i on
EnvHolds(word, i, n, environment) ==
    LET u == CHOOSE k \in 1..Len(environment) : environment[k] = "_"
        L == SubSeq(environment, 1, u - 1)
        R == SubSeq(environment, u + 1, Len(environment))
    IN  /\ \/ L = <<>>
           \/ L = <<"#">> /\ i = 0
           \/ L # <<"#">> /\ Len(L) = 1 /\ i >= 1 /\ SignMatches(L[1], word[i])
        /\ \/ R = <<>>
           \/ R = <<"#">> /\ i + n = Len(word)
           \/ /\ R # <<"#">> /\ Len(R) = 1 /\ i + n < Len(word)
              /\ SignMatches(R[1], word[i + n + 1])

\* the word read from position i on, left to right: an occurrence of X in
\* the environment is written twice and the reading goes on behind it, any
\* other character is written once
RECURSIVE DoubledFrom(_, _, _, _)
DoubledFrom(word, i, X, environment) ==
    IF i >= Len(word) THEN <<>>
    ELSE IF OccursAt(word, i, X) /\ EnvHolds(word, i, Len(X), environment)
    THEN SubSeq(word, i + 1, i + Len(X)) \o SubSeq(word, i + 1, i + Len(X))
            \o DoubledFrom(word, i + Len(X), X, environment)
    ELSE <<word[i + 1]>> \o DoubledFrom(word, i + 1, X, environment)

\* the rule is X/²/E with an input of one character or more
IsDoubling ==
    /\ TheRule.valid
    /\ TheRule.input # <<>>
    /\ TheRule.output = <<DOUBLING>>

R_n_doubled_before_a == RuleLine(<<"n">>, <<DOUBLING>>, <<"_", "a">>)

R_t_doubled_before_a == RuleLine(<<"t">>, <<DOUBLING>>, <<"_", "a">>)

W_tata == <<"t", "a", "t", "a">>

\* C7 as claimed: a rule with the output ² writes every occurrence of its
\* input that is in the environment twice and leaves the rest: n/²/_a turns
\* bana into banna, t/²/_a turns tata into tatta, mala stays.
C7_DoubledAsClaimed ==
    (OneRuleDone /\ IsDoubling) =>
        /\ out_words = <<DoubledFrom(words[1], 0, TheRule.input,
                                     TheRule.environment)>>
        /\ (replacement_rules = <<R_n_doubled_before_a>>
               /\ words = <<(<<"b", "a", "n", "a">>)>>)
              => out_words = <<(<<"b", "a", "n", "n", "a">>)>>
        /\ (replacement_rules = <<R_t_doubled_before_a>> /\ words = <<W_tata>>)
              => out_words = <<(<<"t", "a", "t", "t", "a">>)>>
        /\ (replacement_rules[1] \in {R_n_doubled_before_a,
                                      R_t_doubled_before_a}
               /\ words = <<(<<"m", "a", "l", "a">>)>>)
              => out_words = words

\* C7 as amended: the word is read left to right; an occurrence of the
\* input that is in the environment is written twice and the reading goes
\* on behind it, every other character is written once: n/²/_a turns bana
\* into banna, t/²/_a turns tata into ttatta, mala stays.
C7_EveryOccurrenceDoubled ==
    (OneRuleDone /\ IsDoubling) =>
        /\ out_words = <<DoubledFrom(words[1], 0, TheRule.input,
                                     TheRule.environment)>>
        /\ (replacement_rules = <<R_n_doubled_before_a>>
               /\ words = <<(<<"b", "a", "n", "a">>)>>)
              => out_words = <<(<<"b", "a", "n", "n", "a">>)>>
        /\ (replacement_rules = <<R_t_doubled_before_a>> /\ words = <<W_tata>>)
              => out_words = <<(<<"t", "t", "a", "t", "t", "a">>)>>
        /\ (replacement_rules[1] \in {R_n_doubled_before_a,
                                      R_t_doubled_before_a}
               /\ words = <<(<<"m", "a", "l", "a">>)>>)
              => out_words = words

C7_Witness ==
    /\ pc = "done"
    /\ replacement_rules = <<R_t_doubled_before_a>>
    /\ words = <<W_tata>>
    /\ out_words = <<(<<"t", "t", "a", "t", "t", "a">>)>>

\* the word with the character at each position in Sites replaced by to
ReplacedAt(word, Sites, to) ==
    [k \in 1..Len(word) |-> IF k \in Sites THEN to ELSE word[k]]

\* C10: a bracket class in an environment stands for one character of the
\* word, any of those it encloses: N/m/_[pb] writes m for a member of N
\* wherever p or b follows it, and t/s/[aei]_ writes s for t wherever a, e
\* or i stands before it.
C10_BracketClassMatchesOne ==
    OneRuleDone =>
        LET word == words[1]
        IN  /\ replacement_rules = <<R_N_m_before_pb>> =>
                  out_words =
                     <<ReplacedAt(word,
                                  {k \in 1..(Len(word) - 1) :
                                      /\ <<word[k]>> \in Range(categories["N"])
                                      /\ word[k + 1] \in {"p", "b"}},
                                  "m")>>
            /\ replacement_rules = <<R_t_s_after_aei>> =>
                  out_words =
                     <<ReplacedAt(word,
                                  {k \in 2..Len(word) :
                                      /\ word[k] = "t"
                                      /\ word[k - 1] \in {"a", "e", "i"}},
                                  "s")>>

\* one of the concrete environments Envs holds for the n characters of the
\* word from position i on
SomeEnvironmentMatches(word, i, n, Envs) ==
    \E e \in Envs :
        (IF n = 1 THEN MatchSingleEnvironment(word, i, e, categories)
         ELSE MatchSingleEnvironmentForSegment(word, i, n, e, categories))
           = "True"

\* the word read from position i on: an occurrence of X at a site where one
\* of Envs holds is written as Y and the reading goes on behind it
RECURSIVE RewrittenFrom(_, _, _, _, _)
RewrittenFrom(word, i, X, Y, Envs) ==
    IF i >= Len(word) THEN <<>>
    ELSE IF OccursAt(word, i, X)
            /\ SomeEnvironmentMatches(word, i, Len(X), Envs)
    THEN Y \o RewrittenFrom(word, i + Len(X), X, Y, Envs)
    ELSE <<word[i + 1]>> \o RewrittenFrom(word, i + 1, X, Y, Envs)

\* the rule is X/g/E with groups in E
IsGroupedRule ==
    /\ TheRule.valid
    /\ TheRule.input # <<>>
    /\ TheRule.output = <<"g">>
    /\ InStr("(", TheRule.environment)

R_k_g_optional_vowel == RuleLine(<<"k">>, <<"g">>, <<"#", "(", "V", ")", "_", "V">>)

\* C11: a rule whose environment holds optional or alternative groups
\* applies at a site exactly when one of the concrete environments of the
\* expansion (a group omitted, or one alternative chosen; a mandatory group
\* never omitted) matches there; k/g/#(V)_V turns kasa into gasa and leaves
\* kvasa and akasa.
C11_AnyExpansionMatches ==
    (OneRuleDone /\ IsGroupedRule) =>
        /\ out_words =
              <<RewrittenFrom(words[1], 0, TheRule.input, TheRule.output,
                              Range(AllCombinations(TheRule.environment)))>>
        /\ (replacement_rules = <<R_k_g_optional_vowel>>
               /\ words = <<(<<"k", "a", "s", "a">>)>>)
              => out_words = <<(<<"g", "a", "s", "a">>)>>
        /\ (replacement_rules = <<R_k_g_optional_vowel>>
               /\ words[1] \in {<<"k", "v", "a", "s", "a">>,
                                <<"a", "k", "a", "s", "a">>})
              => out_words = words

(***************************************************************************)
(* What the parser does with one line of the input file.                   *)
(***************************************************************************)
\* the content of the category line "V: content" of a file of one line
ContentOf(file) == SubSeq(file[1], 4, Len(file[1]))

\* every { of the content is closed by a } before the next { and no }
\* stands without its {
WellBraced(content) ==
    LET Depth(k) == Cardinality({i \in 1..k : content[i] = "{"})
                       - Cardinality({i \in 1..k : content[i] = "}"})
    IN  /\ \A k \in 1..Len(content) : Depth(k) \in {0, 1}
        /\ Depth(Len(content)) = 0

\* the texts between a { and the } that closes it
WeightTexts(content) ==
    {SubSeq(content, i + 1, j - 1) :
        <<i, j>> \in {p \in (1..Len(content)) \X (1..Len(content)) :
                         /\ p[1] < p[2]
                         /\ content[p[1]] = "{" /\ content[p[2]] = "}"
                         /\ \A k \in (p[1] + 1)..(p[2] - 1) :
                               content[k] \notin {"{", "}"}}}

\* a weight annotation that is zero or not a number, or a brace without
\* its partner
BadWeight(content) ==
    \/ ~ WellBraced(content)
    \/ \E w \in WeightTexts(content) : PyInt(w) <= 0

\* C12: a category line whose weight annotation is zero, not a number or
\* has an unmatched brace ends the parser in the fatal state, and the
\* category is never defined.
C12_BadWeightIsFatal ==
    (line_idx = 1 /\ lines[1] \in WeightLines
        /\ BadWeight(ContentOf(lines))) =>
        /\ pc = "exit"
        /\ "V" \notin DOMAIN categories

(***************************************************************************)
(* What the word sampler is given for one word-structure line.             *)
(***************************************************************************)
\* the part of a line before its trailing weight, and the weight
\* (1 without a trailing weight)
RuleOfLine(line) ==
    IF "{" \in Range(line) THEN RStrip(Slice(line, 0, IndexOf(line, "{")))
                           ELSE line

WeightOfLine(line) ==
    IF "{" \in Range(line)
    THEN PyInt(Slice(line, IndexOf(line, "{") + 1, Len(line) - 1))
    ELSE 1

\* C13: a word-structure line with a trailing weight {N} (or none, N = 1)
\* is accepted without a warning, and every template of its expansion is
\* handed to the sampler with weight N
C13_TemplatesInheritWeight ==
    (line_idx = 1 /\ lines[1] \in StructureLines) =>
        /\ warnings = <<>>
        /\ pc \notin {"exit", "crash"}
        /\ pc = "generate" =>
               LET templates == expand_rule(RuleOfLine(lines[1]))
               IN  weighted_rules =
                       [k \in 1..Len(templates) |->
                           [rule |-> templates[k],
                            weight |-> WeightOfLine(lines[1])]]

(***************************************************************************)
(* The shapes of a rule line.                                              *)
(***************************************************************************)
\* the rule a line stands for by the three shapes input/output,
\* input/output/environment and input///environment
ShapeOf(line) ==
    LET seps   == {p \in 1..Len(line) : line[p] = "/"}
        Pos(j) == CHOOSE p \in seps : Cardinality({q \in seps : q < p}) = j - 1
        Env(p) == IF p = Len(line) THEN <<"_">>
                  ELSE SubSeq(line, p + 1, Len(line))
    IN  IF Cardinality(seps) = 1
        THEN [valid |-> TRUE, input |-> SubSeq(line, 1, Pos(1) - 1),
              output |-> SubSeq(line, Pos(1) + 1, Len(line)),
              environment |-> <<"_">>]
        ELSE IF Cardinality(seps) = 2
        THEN [valid |-> TRUE, input |-> SubSeq(line, 1, Pos(1) - 1),
              output |-> SubSeq(line, Pos(1) + 1, Pos(2) - 1),
              environment |-> Env(Pos(2))]
        ELSE IF Cardinality(seps) = 3 /\ Pos(3) = Pos(1) + 2
        THEN [valid |-> TRUE, input |-> SubSeq(line, 1, Pos(1) - 1),
              output |-> <<>>, environment |-> Env(Pos(3))]
        ELSE InvalidRule

\* C14: every rule line is parsed into the rule of its shape, a line of no
\* shape gives no rule and the invalid-rule warning, and parsing a line is
\* never fatal
C14_ThreeShapes ==
    \A k \in 1..Len(replacement_rules) :
        (pc = "next_rule" /\ rule_idx >= k) =>
            /\ parse_replacement_rule(replacement_rules[k]) =
                   ShapeOf(replacement_rules[k])
            /\ ~ ShapeOf(replacement_rules[k]).valid <=>
                   [kind |-> "invalid_rule", line_num |-> k]
                       \in Range(warnings)

(***************************************************************************)
(* What the parser stores for a rule that is followed by a comment.        *)
(***************************************************************************)
\* the part of a line before its first blank
BeforeBlank(line) == SubSeq(line, 1, IndexOf(line, " "))

\* C15: of a line "R, whitespace, # comment" the parser stores exactly R,
\* also when R ends in the word boundary #
C15_RuleStoredWithoutComment ==
    (line_idx = 1 /\ lines[1] \in CommentLines) =>
        /\ replacement_rules = <<BeforeBlank(lines[1])>>
        /\ warnings = <<>>
        /\ pc # "crash"

\* the line "a//_#      # delete word-final a" has been read
C15_Witness ==
    /\ line_idx = 1
    /\ lines[1] \in CommentLines
    /\ Len(lines[1]) = 32
    /\ replacement_rules = <<<<"a", "/", "/", "_", "#">>>>

(***************************************************************************)
(* The draws of the sampler.                                               *)
(***************************************************************************)
\* the sum of the weights of the first n rules of the list
RECURSIVE WeightOfFirst(_)
WeightOfFirst(n) ==
    IF n = 0 THEN 0 ELSE WeightOfFirst(n - 1) + weighted_rules[n].weight

\* the draws of rule i: the w_i values that follow those of rules 1..i-1
DrawsOf(i) == WeightOfFirst(i - 1)..(WeightOfFirst(i) - 1)

\* C16: the draw 0..W-1 selects the rule in whose range it lies, the ranges
\* are contiguous and in list order, w_i draws for rule i, and some rule of
\* the list is always returned
C16_DrawInRangeOfSelectedRule ==
    pc = "selected" =>
        /\ random_value \in 0..(WeightOfFirst(Len(weighted_rules)) - 1)
        /\ \E i \in 1..Len(weighted_rules) :
              /\ random_value \in DrawsOf(i)
              /\ Cardinality(DrawsOf(i)) = weighted_rules[i].weight
              /\ selected_rule = weighted_rules[i].rule
        /\ \A i \in 1..Len(weighted_rules) :
              selected_rule # weighted_rules[i].rule =>
                  random_value \notin DrawsOf(i)

\* of CV with weight 2 and CVC with weight 1 the draw 2 selects CVC
C16_Witness ==
    /\ pc = "selected"
    /\ weighted_rules = <<[rule |-> <<"C", "V">>, weight |-> 2],
                          [rule |-> <<"C", "V", "C">>, weight |-> 1]>>
    /\ random_value = 2
    /\ selected_rule = <<"C", "V", "C">>

(***************************************************************************)
(* Word boundaries in an environment.                                      *)
(***************************************************************************)
\* the environment L_R holds for the n characters of the word from the
\* 0-based position i on: L without its leading # stands right before
\* them, from position 0 on if L begins with #, and R without its final #
\* stands right behind them, up to the end of the word if R ends in #
BoundaryEnvHolds(word, i, n, environment) ==
    LET u == CHOOSE p \in 1..Len(environment) : environment[p] = "_"
        L == SubSeq(environment, 1, u - 1)
        R == SubSeq(environment, u + 1, Len(environment))
        atStart == L # <<>> /\ L[1] = "#"
        atEnd == R # <<>> /\ R[Len(R)] = "#"
        X == IF atStart THEN SubSeq(L, 2, Len(L)) ELSE L
        Z == IF atEnd THEN SubSeq(R, 1, Len(R) - 1) ELSE R
    IN  /\ OccursAt(word, i - Len(X), X)
        /\ atStart => i - Len(X) = 0
        /\ OccursAt(word, i + n, Z)
        /\ atEnd => i + n + Len(Z) = Len(word)

\* the word read from position i on: an occurrence of X at a site where the
\* environment holds is written as Y and the reading goes on behind it
RECURSIVE BoundaryRewrittenFrom(_, _, _, _, _)
BoundaryRewrittenFrom(word, i, X, Y, environment) ==
    IF i >= Len(word) THEN <<>>
    ELSE IF OccursAt(word, i, X)
            /\ BoundaryEnvHolds(word, i, Len(X), environment)
    THEN Y \o BoundaryRewrittenFrom(word, i + Len(X), X, Y, environment)
    ELSE <<word[i + 1]>>
            \o BoundaryRewrittenFrom(word, i + 1, X, Y, environment)

\* the rule is a replacement or a deletion with a # in its environment
IsBoundaryRule ==
    /\ TheRule.valid
    /\ TheRule.input # <<>>
    /\ TheRule.output \in {<<"g">>, <<>>}
    /\ InStr("#", TheRule.environment)

\* C17: a # in the environment of a replacement or a deletion is never
\* compared with a character of the word and never stands for one: with
\* the left context #X the rule applies only where X stands right before
\* the site and begins at index 0, with the right context X# only where X
\* stands right behind the segment and ends at the last character
C17_BoundaryConsumesNoCharacter ==
    (OneRuleDone /\ IsBoundaryRule) =>
        out_words = <<BoundaryRewrittenFrom(words[1], 0, TheRule.input,
                                            TheRule.output,
                                            TheRule.environment)>>

(***************************************************************************)
(* Insertion.                                                              *)
(***************************************************************************)
\* the word read from the insertion position p on: Y is written once
\* before the character at p (at the end of the word for p = len(word))
\* if the environment holds at p
RECURSIVE InsertedFrom(_, _, _, _)
InsertedFrom(word, p, Y, environment) ==
    (IF BoundaryEnvHolds(word, p, 0, environment) THEN Y ELSE <<>>)
        \o (IF p >= Len(word) THEN <<>>
            ELSE <<word[p + 1]>> \o InsertedFrom(word, p + 1, Y, environment))

\* the rule is /Y/E
IsInsertion ==
    /\ TheRule.valid
    /\ TheRule.input = <<>>
    /\ TheRule.output # <<>>

\* C18: an insertion rule looks at the len(word) + 1 insertion positions
\* and writes its output once before the character at each position where
\* the environment matches: /x/_ makes of a word of n characters n + 1
\* copies of x with the n characters between them, and /e/#_s writes e
\* before exactly the words that begin with s
C18_InsertedOncePerPosition ==
    (OneRuleDone /\ IsInsertion) =>
        LET word == words[1]
        IN  /\ out_words = <<InsertedFrom(word, 0, TheRule.output,
                                          TheRule.environment)>>
            /\ replacement_rules = <<RuleLine(<<>>, <<"x">>, <<"_">>)>> =>
                  /\ Len(out_words[1]) = 2 * Len(word) + 1
                  /\ \A k \in 1..Len(out_words[1]) :
                        out_words[1][k] =
                            IF k % 2 = 1 THEN "x" ELSE word[k \div 2]
            /\ replacement_rules =
                   <<RuleLine(<<>>, <<"e">>, <<"#", "_", "s">>)>> =>
                  out_words = <<IF word # <<>> /\ word[1] = "s"
                                THEN <<"e">> \o word ELSE word>>

(***************************************************************************)
(* Standard replacement.                                                   *)
(***************************************************************************)
\* the number of occurrences of the character c in the word
Occurrences(word, c) == Cardinality({k \in 1..Len(word) : word[k] = c})

\* the rule is X/Y/E with X and Y of one character or more and E without #
IsPlainReplacement ==
    /\ TheRule.valid
    /\ TheRule.input # <<>>
    /\ TheRule.output # <<>>
    /\ ~ InStr("#", TheRule.environment)

\* C19: after a match at position i the scan of a replacement goes on at
\* i + len(input) of the word, so matches never overlap and the text
\* written is never matched again: a/aa/_ makes 2k occurrences of a out of
\* k, and aa/b/_ turns aaa into ba
C19_ScanResumesBehindInput ==
    (OneRuleDone /\ IsPlainReplacement) =>
        LET word == words[1]
        IN  /\ out_words = <<BoundaryRewrittenFrom(word, 0, TheRule.input,
                                                   TheRule.output,
                                                   TheRule.environment)>>
            /\ replacement_rules =
                   <<RuleLine(<<"a">>, <<"a", "a">>, <<"_">>)>> =>
                  Occurrences(out_words[1], "a") = 2 * Occurrences(word, "a")
            /\ (replacement_rules =
                    <<RuleLine(<<"a", "a">>, <<"b">>, <<"_">>)>>
                   /\ word = <<"a", "a", "a">>) =>
                  out_words = <<(<<"b", "a">>)>>

\* aa/b/_ has turned aaa into ba
C19_Witness ==
    /\ OneRuleDone
    /\ replacement_rules = <<RuleLine(<<"a", "a">>, <<"b">>, <<"_">>)>>
    /\ words = <<(<<"a", "a", "a">>)>>
    /\ out_words = <<(<<"b", "a">>)>>

(***************************************************************************)
(* Syllable deletion.                                                      *)
(***************************************************************************)
\* the syllables of a word: its parts between the dots
RECURSIVE SyllablesOf(_)
SyllablesOf(word) ==
    IF ~ InStr(DOT, word) THEN <<word>>
    ELSE <<SubSeq(word, 1, IndexOf(word, DOT))>>
            \o SyllablesOf(SubSeq(word, IndexOf(word, DOT) + 2, Len(word)))

\* the syllable satisfies the stress qualifier that stands before σ in the
\* input of the rule (none: every syllable does)
SatisfiesQualifier(syllable, input) ==
    LET marked(mark) == syllable # <<>> /\ syllable[1] = mark
    IN  IF input[1] = PRIMARY THEN marked(PRIMARY)
        ELSE IF input[1] = SECONDARY THEN marked(SECONDARY)
        ELSE IF input[1] = BREVE THEN ~ marked(PRIMARY) /\ ~ marked(SECONDARY)
        ELSE TRUE

\* the rule is σ//E with or without a stress qualifier, E being #_ or _#
IsSyllableDeletion ==
    /\ TheRule.valid
    /\ InStr(SIGMA, TheRule.input)
    /\ TheRule.output = <<>>
    /\ TheRule.environment \in {<<"#", "_">>, <<"_", "#">>}

\* C20: in syllabification mode a syllable deletion with the environment
\* #_ deletes the first syllable, with _# the last one, and only if that
\* syllable satisfies the stress qualifier; all other syllables are kept
\* in their order and joined with dots again
C20_OnlyBoundarySyllableDeleted ==
    (OneRuleDone /\ syllabify /\ IsSyllableDeletion) =>
        LET syllables == SyllablesOf(words[1])
            n == Len(syllables)
            site == IF TheRule.environment = <<"#", "_">> THEN 1 ELSE n
            kept == IF SatisfiesQualifier(syllables[site], TheRule.input)
                    THEN SubSeq(syllables, 1, site - 1)
                            \o SubSeq(syllables, site + 1, n)
                    ELSE syllables
        IN  SyllablesOf(out_words[1]) = IF kept = <<>> THEN <<(<<>>)>> ELSE kept

(***************************************************************************)
(* Stress movement.                                                        *)
(***************************************************************************)
\* a syllable without its stress marks
WithoutMarks(syllable) ==
    LET keep == {k \in 1..Len(syllable) :
                    syllable[k] \notin {PRIMARY, SECONDARY}}
    IN  [i \in 1..Cardinality(keep) |->
            syllable[CHOOSE k \in keep :
                         Cardinality({j \in keep : j < k}) = i - 1]]

\* the rule is σ/ˈσ/E or σ/ˌσ/E, E being #_ or _#
IsStressMovement ==
    /\ TheRule.valid
    /\ TheRule.input = <<SIGMA>>
    /\ TheRule.output \in {<<PRIMARY, SIGMA>>, <<SECONDARY, SIGMA>>}
    /\ TheRule.environment \in {<<"#", "_">>, <<"_", "#">>}

\* C21: after a stress movement to the first (#_) or the last (_#)
\* syllable that syllable begins with the mark of the rule, no other
\* syllable begins with it, and the number of syllables and their
\* characters other than stress marks are as before
C21_StressOnTargetSyllableOnly ==
    (OneRuleDone /\ syllabify /\ IsStressMovement) =>
        LET before == SyllablesOf(words[1])
            after == SyllablesOf(out_words[1])
            mark == TheRule.output[1]
            site == IF TheRule.environment = <<"#", "_">> THEN 1
                    ELSE Len(before)
        IN  /\ Len(after) = Len(before)
            /\ after[site] # <<>> /\ after[site][1] = mark
            /\ \A k \in 1..Len(after) :
                  k # site => (after[k] = <<>> \/ after[k][1] # mark)
            /\ \A k \in 1..Len(after) :
                  WithoutMarks(after[k]) = WithoutMarks(before[k])

\* σ/ˈσ/#_ has moved the primary stress of ta.ˈta to the first syllable
C21_Witness ==
    /\ OneRuleDone
    /\ syllabify
    /\ replacement_rules =
           <<RuleLine(<<SIGMA>>, <<PRIMARY, SIGMA>>, <<"#", "_">>)>>
    /\ words = <<(<<"t", "a", DOT, PRIMARY, "t", "a">>)>>
    /\ out_words = <<(<<PRIMARY, "t", "a", DOT, "t", "a">>)>>

(***************************************************************************)
(* The breaks of the syllabifier.                                          *)
(***************************************************************************)
\* the positions of the word before which the syllabified word has a dot
BreaksOf(syllabified_word) ==
    LET letters == WithoutMarks(syllabified_word)
    IN  {Cardinality({j \in 1..(d - 1) : letters[j] # DOT}) :
            d \in {d \in 1..Len(letters) : letters[d] = DOT}}

\* an allowed onset begins the part of the word from position i on
OnsetAt(word, i) ==
    \E k \in 1..Len(syllabification_rules.allowed_onsets) :
        OccursAt(word, i, syllabification_rules.allowed_onsets[k])

\* an allowed coda ends the part of the word before position i
CodaBefore(word, i) ==
    \E k \in 1..Len(syllabification_rules.allowed_codas) :
        LET coda == syllabification_rules.allowed_codas[k]
        IN  OccursAt(word, i - Len(coda), coda)

\* C22 as stated: a break stands at position i only if the part of the
\* word from i on begins with an allowed onset
C22_BreakOnlyBeforeOnset ==
    pc = "written" =>
        \A i \in BreaksOf(out_words[1]) : OnsetAt(words[1], i)

\* C22: a break stands at position i only if the part of the word from i
\* on begins with an allowed onset or the part before i ends in an allowed
\* coda; after an allowed coda the break is placed before any character
C22_BreakBeforeOnsetOrAfterCoda ==
    pc = "written" =>
        \A i \in BreaksOf(out_words[1]) :
            OnsetAt(words[1], i) \/ CodaBefore(words[1], i)

\* with the onset t and the coda k, tka has been broken into tk.a
C22_Witness ==
    /\ pc = "written"
    /\ words = <<(<<"t", "k", "a">>)>>
    /\ syllabification_rules.allowed_onsets = <<(<<"t">>)>>
    /\ syllabification_rules.allowed_codas = <<(<<"k">>)>>
    /\ out_words = <<(<<"t", "k", DOT, "a">>)>>

(***************************************************************************)
(* The dictionary section of an input file.                                *)
(***************************************************************************)
DictMarker == <<"-", "d", "i", "c", "t">>

EndDictMarker == <<"-", "e", "n", "d", "-", "d", "i", "c", "t">>

\* the lines of the file that stand neither between -dict and -end-dict nor
\* are one of the two markers
RECURSIVE OutsideDictFrom(_, _, _)
OutsideDictFrom(file, k, inside) ==
    IF k > Len(file) THEN <<>>
    ELSE IF file[k] = DictMarker THEN OutsideDictFrom(file, k + 1, TRUE)
    ELSE IF file[k] = EndDictMarker THEN OutsideDictFrom(file, k + 1, FALSE)
    ELSE (IF inside THEN <<>> ELSE <<file[k]>>)
             \o OutsideDictFrom(file, k + 1, inside)

\* the lines of the file before its first -dict
BeforeDict(file) ==
    LET at == {k \in 1..Len(file) : file[k] = DictMarker}
    IN  IF at = {} THEN file
        ELSE SubSeq(file, 1, (CHOOSE k \in at : \A j \in at : k <= j) - 1)

\* what a file of category, rule and word-structure lines alone is collected
\* as: the category table, the sound-change rules, the word-structure rules
RECURSIVE CollectedFrom(_, _)
CollectedFrom(file, k) ==
    IF k = 0
    THEN [cats |-> <<>>, repl |-> <<>>, rules |-> <<>>]
    ELSE LET sofar == CollectedFrom(file, k - 1)
             line == file[k]
             kind == categorize_line(line)
             entry == CategoryLine(line)
         IN  IF kind = "category"
             THEN [sofar EXCEPT !.cats = (entry.symbol[1] :> entry.members)
                                             @@ sofar.cats]
             ELSE IF kind = "replacement"
             THEN [sofar EXCEPT !.repl =
                      Append(sofar.repl,
                             [j \in 1..Len(line) |->
                                 IF line[j] \in {">", "→"} THEN "/"
                                 ELSE line[j]])]
             ELSE IF kind = "structure"
             THEN [sofar EXCEPT !.rules = sofar.rules \o expand_rule(line)]
             ELSE sofar

Collected(file) == CollectedFrom(file, Len(file))

ParsedAs(collected) ==
    /\ categories = collected.cats
    /\ replacement_rules = collected.repl
    /\ structure_rules = collected.rules

FileRead == line_idx = Len(lines) /\ line_idx > 0 /\ pc # "exit"

\* C23 as stated: in both modes the file is collected as the file without
\* its dictionary section, so what follows -end-dict is collected as if it
\* stood before -dict
C23_SectionOnlyTogglesWords ==
    FileRead => ParsedAs(Collected(OutsideDictFrom(lines, 1, FALSE)))

\* C23: when dictionary mode was requested, the file is collected as the
\* file without its dictionary section, so what follows -end-dict is
\* collected as if it stood before -dict; when it was not requested, only
\* the lines before the first -dict are collected, and every category,
\* rule or word-structure rule after -dict, also after -end-dict, is
\* ignored.  In both modes no line between the markers is collected as a
\* category or rule.
C23_SectionTogglesWordsInDictMode ==
    FileRead =>
        IF dict_mode
        THEN ParsedAs(Collected(OutsideDictFrom(lines, 1, FALSE)))
        ELSE ParsedAs(Collected(BeforeDict(lines)))

\* in dictionary mode the rule a/e/_ after -end-dict has been collected,
\* the line V: ae inside the section has not
C23_Witness ==
    /\ FileRead
    /\ dict_mode
    /\ lines = <<DictMarker, <<"V", ":", " ", "a", "e">>, EndDictMarker,
                 <<"a", "/", "e", "/", "_">>>>
    /\ replacement_rules = <<(<<"a", "/", "e", "/", "_">>)>>
    /\ categories = <<>>

(***************************************************************************)
(* Reserved characters in a line of the form X: content.                   *)
(***************************************************************************)
\* the content without its weight braces {digits}
RECURSIVE WithoutWeights(_)
WithoutWeights(content) ==
    LET closes == {k \in 3..Len(content) :
                      /\ content[k] = "}"
                      /\ \A j \in 2..(k - 1) : content[j] \in Digits}
    IN  IF content = <<>> THEN <<>>
        ELSE IF content[1] = "{" /\ closes # {}
        THEN WithoutWeights(SubSeq(content,
                                   (CHOOSE k \in closes :
                                       \A j \in closes : k <= j) + 1,
                                   Len(content)))
        ELSE <<content[1]>> \o WithoutWeights(Tail(content))

\* a line X: content, not a comment line, with a reserved character as
\* its name or in its content outside the weight braces
ReservedInCategoryLine(line) ==
    /\ Len(line) >= 2
    /\ line[2] = ":"
    /\ line[1] # "#"
    /\ \/ line[1] \in {PRIMARY, SECONDARY, BREVE, SIGMA, "!", "[", "]", "(",
                       ")", DOUBLING, "-", "→", "/", ">", ":", "{", "}"}
       \/ \E c \in Range(WithoutWeights(SubSeq(line, 3, Len(line)))) :
             c \in {PRIMARY, SECONDARY, BREVE, SIGMA, "!", "[", "]", "(",
                    ")", DOUBLING, "-", "→", "/", ">", "#", ":", "{", "}"}

\* C24: a first line X: content with a reserved character ends parsing in
\* the fatal error state; nothing is collected from it, neither a category
\* nor a rule of another kind
C24_ReservedCharacterIsFatal ==
    (line_idx >= 1 /\ ReservedInCategoryLine(lines[1])) =>
        /\ pc = "exit"
        /\ line_idx = 1
        /\ categories = <<>>
        /\ replacement_rules = <<>>
        /\ structure_rules = <<>>

(***************************************************************************)
(* A group whose content has groups of its own.                            *)
(***************************************************************************)
\* the nesting depth of the content behind its first k characters
RECURSIVE DepthAt(_, _)
DepthAt(content, k) ==
    IF k = 0 THEN 0
    ELSE DepthAt(content, k - 1)
             + (IF content[k] = "(" THEN 1
                ELSE IF content[k] = ")" THEN -1 ELSE 0)

\* the pieces of the content between its commas at nesting depth 0
TopLevelAlternatives(content) ==
    LET cuts == {k \in 1..Len(content) :
                    content[k] = "," /\ DepthAt(content, k) = 0}
        ends == cuts \cup {Len(content) + 1}
        starts == {0} \cup cuts
        Nth(S, n) == CHOOSE k \in S : Cardinality({j \in S : j < k}) = n - 1
    IN  [n \in 1..Cardinality(ends) |->
            SubSeq(content, Nth(starts, n) + 1, Nth(ends, n) - 1)]

\* the pattern is X(content)Y with no parenthesis in X and Y, and the
\* content is not mandatory and has well-nested groups of its own
NestedGroup(pat) ==
    LET opens  == {k \in 1..Len(pat) : pat[k] = "("}
        closes == {k \in 1..Len(pat) : pat[k] = ")"}
        first  == CHOOSE k \in opens : \A j \in opens : k <= j
        last   == CHOOSE k \in closes : \A j \in closes : j <= k
        content == SubSeq(pat, first + 1, last - 1)
    IN  IF opens = {} \/ closes = {} THEN [nested |-> FALSE]
        ELSE IF /\ first < last
                /\ InStr("(", content)
                /\ content[1] # "!"
                /\ DepthAt(content, Len(content)) = 0
                /\ \A k \in 1..Len(content) : DepthAt(content, k) >= 0
        THEN [nested |-> TRUE, X |-> SubSeq(pat, 1, first - 1),
              content |-> content, Y |-> SubSeq(pat, last + 1, Len(pat))]
        ELSE [nested |-> FALSE]

\* X Y, then X alternative Y for every alternative, without repetitions
ExpansionsOfNested(group) ==
    LET alternatives == TopLevelAlternatives(group.content)
        options == <<(<<>>)>> \o [n \in 1..Len(alternatives) |->
                                    Strip(alternatives[n])]
        all == [n \in 1..Len(options) |-> group.X \o options[n] \o group.Y]
        firsts == {n \in 1..Len(all) : \A m \in 1..(n - 1) : all[m] # all[n]}
        Nth(n) == CHOOSE k \in firsts :
                      Cardinality({j \in firsts : j < k}) = n - 1
    IN  [n \in 1..Cardinality(firsts) |-> all[Nth(n)]]

\* C25: of a pattern X(content)Y whose content has groups of its own, both
\* expanders return X Y and X alternative Y for the alternatives between
\* the commas at nesting depth 0 of the content: an alternative with a
\* nested group and its commas is substituted whole
C25_NestedAlternativeKeptWhole ==
    NestedGroup(pattern).nested =>
        /\ pc = "rule_expanded" =>
               expanded_rules = ExpansionsOfNested(NestedGroup(pattern))
        /\ pc = "environment_expanded" =>
               expanded_environments =
                   ExpansionsOfNested(NestedGroup(pattern))

(***************************************************************************)
(* Rules of malformed syntax.                                              *)
(***************************************************************************)
\* C26: no rule, also none whose environment opens a bracket class that
\* is never closed, aborts apply_replacement_rules: the run never ends in
\* an uncaught exception, and when it is done every word has been
\* processed
C26_MalformedRuleNeverAborts ==
    /\ pc # "raised"
    /\ pc = "done" => Len(out_words) = Len(words)

(***************************************************************************)
(* Matching against the word as it was before the rule.                    *)
(***************************************************************************)
\* the rule is X/Y/E or X//E with X of one character and E without #
IsOneCharRule ==
    /\ TheRule.valid
    /\ Len(TheRule.input) = 1
    /\ ~ InStr("#", TheRule.environment)

\* every character of the word on its own: the output where the character
\* is the input and the environment holds around it in the word, else the
\* character
RewrittenPointwise(word, X, Y, environment) ==
    Join([k \in 1..Len(word) |->
             IF OccursAt(word, k - 1, X) /\ EnvHolds(word, k - 1, 1, environment)
             THEN Y ELSE <<word[k]>>])

\* C27: a deletion or replacement of one character decides every position
\* by the word as it was before the rule, never by what the rule has
\* written or deleted: a/b/a_ turns aaa into abb, a//a_ turns aaa into a
C27_MatchedAgainstOriginalWord ==
    (OneRuleDone /\ IsOneCharRule) =>
        LET word == words[1]
        IN  /\ out_words = <<RewrittenPointwise(word, TheRule.input,
                                                TheRule.output,
                                                TheRule.environment)>>
            /\ (replacement_rules = <<RuleLine(<<"a">>, <<"b">>, <<"a", "_">>)>>
                   /\ word = <<"a", "a", "a">>) =>
                  out_words = <<(<<"a", "b", "b">>)>>
            /\ (replacement_rules = <<RuleLine(<<"a">>, <<>>, <<"a", "_">>)>>
                   /\ word = <<"a", "a", "a">>) =>
                  out_words = <<(<<"a">>)>>

\* a/b/a_ has turned aaa into abb
C27_Witness ==
    /\ OneRuleDone
    /\ replacement_rules = <<RuleLine(<<"a">>, <<"b">>, <<"a", "_">>)>>
    /\ words = <<(<<"a", "a", "a">>)>>
    /\ out_words = <<(<<"a", "b", "b">>)>>

(***************************************************************************)
(* Termination of the scans.                                               *)
(***************************************************************************)
\* C28: every scan of the core comes to its end for every input: the scan
\* for groups of both expanders (also behind an unmatched parenthesis,
\* where it goes on just after that parenthesis), the insertion, deletion
\* and replacement scans, whose position grows with every pass, and
\* find_syllable_boundaries
C28_EveryScanTerminates ==
    /\ <>(pc \in {"scanned", "raised"})
    /\ [][(/\ scan \in {"apply_insertion_rule", "apply_deletion_rule",
                        "apply_standard_replacement",
                        "find_syllable_boundaries"}
           /\ pc' = "scan") => scan_i' > scan_i]_vars

\* the scan of expand_rule has come to the end of the pattern ((a, behind
\* two unmatched parentheses
C28_Witness ==
    /\ pc = "scanned"
    /\ scan = "expand_rule"
    /\ pattern = <<"(", "(", "a">>
    /\ scan_i = 3
    /\ scan_result = <<>>

(***************************************************************************)
(* Syllabification and cleaning.                                           *)
(***************************************************************************)
\* C29: a word without '.', primary and secondary stress mark that has
\* been syllabified and stressed, with any rules and any stress pattern
\* that may be chosen, is cleaned to the word itself: only marks have been
\* inserted, no character was changed, dropped or moved
C29_CleaningUndoesSyllabification ==
    pc = "written" =>
        \A k \in 1..Len(words) :
            ({DOT, PRIMARY, SECONDARY} \cap Range(words[k]) = {}) =>
                clean_word_for_processing(out_words[k]) = words[k]

\* tat has been written as ta.t with the primary stress on the second
\* syllable and the secondary on the first
C29_Witness ==
    /\ pc = "written"
    /\ words = <<(<<"t", "a", "t">>)>>
    /\ out_words = <<(<<SECONDARY, "t", "a", DOT, PRIMARY, "t">>)>>

(***************************************************************************)
(* The two expanders.                                                      *)
(***************************************************************************)
\* C30: expand_rule and expand_environment_rule are the same function:
\* what either has returned for a pattern is, string by string and in the
\* same order, what the other returns for it
C30_ExpandersAgree ==
    /\ pc = "rule_expanded" =>
           expanded_rules = expand_environment_rule(pattern)
    /\ pc = "environment_expanded" =>
           expanded_environments = expand_rule(pattern)

\* expand_environment_rule has expanded ( b ,c) into the empty string, b
\* and c
C30_Witness ==
    /\ pc = "environment_expanded"
    /\ pattern = <<"(", " ", "b", " ", ",", "c", ")">>
    /\ expanded_environments = <<(<<>>), (<<"b">>), (<<"c">>)>>

====
